---- MODULE Spec2Model ----
(***************************************************************************)
(* Adaptive quiz engine (axat0207/nextgrade).                              *)
(*                                                                         *)
(* The repository holds four session controllers                           *)
(*   "part_001"          QuizInterface, src/unnamed/part_001               *)
(*   "QuizInterface"     QuizInterface, src/components/QuizInterface.tsx   *)
(*   "part_002"          QuizInterface, src/unnamed/part_002               *)
(*   "QuestionInterface" QuestionInterface, src/components/                *)
(*                       PerformanceChart.tsx (second half of the file)    *)
(* the generate-question route (src/app/api/generate-question/route.ts)    *)
(* and the batch generation client (src/services/questionService.ts).      *)
(*                                                                         *)
(* A React component is modelled as a record of its useState/useRef cells. *)
(* An event handler is an operator from that record to the record after    *)
(* the handler and the effects its state changes trigger have run: React   *)
(* runs a handler to completion and flushes the effects it causes before   *)
(* the next discrete event is dispatched.  A callback that was scheduled   *)
(* earlier (a fetch continuation, a setTimeout) runs with the values its   *)
(* closure captured, which the model stores with the pending callback.     *)
(***************************************************************************)
EXTENDS Integers, Sequences, FiniteSets, TLC

VARIABLES
    variant,    \* which controller is mounted
    subject,    \* prop `subject` of QuizInterface
    quiz,       \* state of the mounted QuizInterface
    qi,         \* state of the mounted QuestionInterface
    server,     \* the question route: its cache and the requests it is serving
    service,    \* the question service: its session caches and the calls in progress
    parent,     \* state of Home (src/app/page.tsx), the caller of QuizInterface
    nextId,     \* number of questions the generate-question route has served
    budget      \* what is left of the exploration bounds

vars == <<variant, subject, quiz, qi, server, service, parent, nextId, budget>>

Null == "null"

\* currentQuestion === null
NoQuestion == [id |-> 0, topic |-> Null, level |-> Null, correctAnswer |-> Null]

(***************************************************************************)
(* Bounds of the exploration.                                              *)
(***************************************************************************)
\* SpecProgression explores one full cycle of the progression policy (to the
\* first topic change, or to the highest level) and this many recorded
\* attempts more, with this many off-path inputs
MaxExtraProgression == 1
MaxOddProgression == 1
\* recorded attempts and off-path inputs explored by Spec
MaxRecorded == 3
MaxOdd == 2
\* duration in seconds of the sessions Spec explores
MaxTimeRemaining == 2

(***************************************************************************)
(* Configuration.                                                          *)
(***************************************************************************)
QuizVariants == {"part_001", "QuizInterface", "part_002"}

\* SUBJECT_CONFIG[subject].topics
Topics(subj) ==
    IF subj = "mathematics"
    THEN <<"numbers", "algebra", "geometry", "statistics">>
    ELSE <<"grammar", "vocabulary", "reading">>

Subjects == {"mathematics", "english"}

\* DIFFICULTY_LEVELS
DIFFICULTY_LEVELS(v) ==
    IF v = "part_001"
    THEN <<"easy", "medium", "hard">>
    ELSE <<"very_easy", "easy", "medium", "hard">>

\* threshold of handleSubmit in part_001 (the literal 5)
STREAK_THRESHOLD == 5

\* @/config/constants is not part of the sources: the value is the spec's
\* "configured threshold K (e.g. 5-7)"
CONSECUTIVE_TOPIC_CHANGE == 5

\* TEST_DURATION_MINUTES * 60; @/config/constants is not part of the sources,
\* and a session is explored with the duration it was set up with
TEST_DURATION_SECONDS(s) == s.testDuration

\* options of every generated question; the first is the correct answer
Options == {"optA", "optB"}
CorrectOption == "optA"

Min(a, b) == IF a < b THEN a ELSE b
Max(a, b) == IF a > b THEN a ELSE b

RECURSIVE IndexOf(_, _, _)
\* Array.prototype.indexOf, 0-based, -1 when absent
IndexOf(seq, x, i) ==
    IF i > Len(seq) THEN -1
    ELSE IF seq[i] = x THEN i - 1
    ELSE IndexOf(seq, x, i + 1)

(***************************************************************************)
(* The test report.                                                        *)
(***************************************************************************)
InitialReport ==
    [ totalQuestions |-> 0,
      correctAnswers |-> 0,
      hintsUsed |-> 0,
      timeTaken |-> 0,
      questionsData |-> <<>>,
      topicsCompleted |-> <<>>,
      topicStats |-> [t \in {} |-> 0],
      totalAttempts |-> 0,
      averageTimePerQuestion |-> [num |-> 0, den |-> 1] ]

\* a topic's statistics starting with a correct answer already counted
ZeroTopicStatOneCorrect ==
    [total |-> 0, correct |-> 1, totalAttempts |-> 0, totalTime |-> 0, hintsUsed |-> 0]

ZeroTopicStat ==
    [total |-> 0, correct |-> 0, totalAttempts |-> 0, totalTime |-> 0, hintsUsed |-> 0]

\* newStats[currentTopic] || { total: 0, ... }
TopicStatOf(stats, topic) ==
    IF topic \in DOMAIN stats THEN stats[topic] ELSE ZeroTopicStat

\* { ...newStats, [currentTopic]: topicStat }
WithTopicStat(stats, topic, stat) ==
    [t \in (DOMAIN stats) \cup {topic} |-> IF t = topic THEN stat ELSE stats[t]]

BoolToInt(b) == IF b THEN 1 ELSE 0

\* setTestReport updater of a correct submission (part_001) / answer (part_002)
ReportCorrect(prev, topic, q, st, timeSpent, withDifficulty, difficulty) ==
    LET old == TopicStatOf(prev.topicStats, topic)
        topicStat ==
            [ total |-> old.total + 1,
              correct |-> old.correct + 1,
              totalAttempts |-> old.totalAttempts + st.attempts + 1,
              totalTime |-> old.totalTime + timeSpent,
              hintsUsed |-> old.hintsUsed + BoolToInt(st.hintUsed) ]
        base ==
            [ questionId |-> q.id,
              topic |-> q.topic,
              attemptsNeeded |-> st.attempts + 1,
              hintUsed |-> st.hintUsed,
              timeTaken |-> timeSpent,
              correct |-> TRUE ]
        entry ==
            IF withDifficulty
            THEN [f \in (DOMAIN base) \cup {"difficulty"} |->
                     IF f = "difficulty" THEN difficulty ELSE base[f]]
            ELSE base
    IN  [prev EXCEPT
            !.correctAnswers = @ + 1,
            !.hintsUsed = @ + BoolToInt(st.hintUsed),
            !.totalAttempts = @ + st.attempts + 1,
            !.timeTaken = @ + timeSpent,
            !.averageTimePerQuestion =
                [num |-> prev.timeTaken + timeSpent, den |-> prev.totalQuestions + 1],
            !.questionsData = Append(@, entry),
            !.topicStats = WithTopicStat(@, topic, topicStat)]

\* a final incorrect submission recorded as a correct one
ReportIncorrectAsCorrect(prev, topic, q, st, timeSpent, withDifficulty, difficulty) ==
    ReportCorrect(prev, topic, q, st, timeSpent, withDifficulty, difficulty)

\* setTestReport updater of a final incorrect submission (part_001, part_002)
ReportIncorrect(prev, topic, q, st, timeSpent, withDifficulty, difficulty) ==
    LET newAttempts == st.attempts + 1
        old == TopicStatOf(prev.topicStats, topic)
        topicStat ==
            [ total |-> old.total + 1,
              correct |-> old.correct,
              totalAttempts |-> old.totalAttempts + newAttempts,
              totalTime |-> old.totalTime + timeSpent,
              hintsUsed |-> old.hintsUsed + BoolToInt(st.hintUsed) ]
        base ==
            [ questionId |-> q.id,
              topic |-> q.topic,
              attemptsNeeded |-> newAttempts,
              hintUsed |-> st.hintUsed,
              timeTaken |-> timeSpent,
              correct |-> FALSE ]
        entry ==
            IF withDifficulty
            THEN [f \in (DOMAIN base) \cup {"difficulty"} |->
                     IF f = "difficulty" THEN difficulty ELSE base[f]]
            ELSE base
    IN  [prev EXCEPT
            !.hintsUsed = @ + BoolToInt(st.hintUsed),
            !.totalAttempts = @ + newAttempts,
            !.timeTaken = @ + timeSpent,
            !.averageTimePerQuestion =
                [num |-> prev.timeTaken + timeSpent, den |-> prev.totalQuestions + 1],
            !.questionsData = Append(@, entry),
            !.topicStats = WithTopicStat(@, topic, topicStat)]

\* setTestReport updater of handleAnswer in QuizInterface.tsx (every answer)
ReportAnswer(prev, topic, q, attemptCount, hint, timeSpent, isCorrect) ==
    LET old == TopicStatOf(prev.topicStats, topic)
        topicStat ==
            [ total |-> old.total + 1,
              correct |-> old.correct + BoolToInt(isCorrect),
              totalAttempts |-> old.totalAttempts + attemptCount + 1,
              totalTime |-> old.totalTime + timeSpent,
              hintsUsed |-> old.hintsUsed + BoolToInt(hint) ]
    IN  [prev EXCEPT
            !.correctAnswers = @ + BoolToInt(isCorrect),
            !.hintsUsed = @ + BoolToInt(hint),
            !.totalAttempts = @ + attemptCount + 1,
            !.timeTaken = @ + timeSpent,
            !.averageTimePerQuestion =
                [num |-> prev.timeTaken + timeSpent, den |-> prev.totalQuestions + 1],
            !.questionsData =
                Append(@, [ questionId |-> q.id,
                            topic |-> q.topic,
                            attemptsNeeded |-> attemptCount + 1,
                            hintUsed |-> hint,
                            timeTaken |-> timeSpent ]),
            !.topicStats = WithTopicStat(@, topic, topicStat)]

(***************************************************************************)
(* QuizInterface: state.                                                   *)
(***************************************************************************)
\* DIFFICULTY_LEVELS[index], index 0-based
LevelName(v, index) == DIFFICULTY_LEVELS(v)[index + 1]

\* the level fetchNextQuestion puts in the request body
RequestLevel(v, s) ==
    IF v = "part_001"
    THEN LevelName(v, s.currentDifficultyIndex)
    ELSE LevelName(v, Min(s.currentDifficultyIndex, Len(DIFFICULTY_LEVELS(v)) - 1))

\* what the callbacks created by one render see: the useCallback closure
Closure(v, s) ==
    [ topic |-> s.currentTopic,
      level |-> RequestLevel(v, s),
      testCompleted |-> s.testCompleted,
      isAnswerProcessing |-> s.isAnswerProcessing,
      asked |-> s.askedQuestions ]

\* the requests in flight left running
AbortNothing(reqs) == reqs

\* abortController.current.abort(): the newest request is the only one whose
\* controller has not been aborted yet
AbortInFlight(reqs) == [i \in DOMAIN reqs |-> [reqs[i] EXCEPT !.aborted = TRUE]]

\* fetchNextQuestion up to its await, called with the closure c
FetchNextQuestion(v, s, c) ==
    IF ~s.isMounted \/ c.testCompleted \/ (v = "QuizInterface" /\ c.isAnswerProcessing)
    THEN s
    ELSE [s EXCEPT
            !.isLoading = TRUE,
            !.error = Null,
            !.selectedAnswer = Null,
            !.showHint = FALSE,
            !.showExplanation = FALSE,
            !.currentQuestionStats = [attempts |-> 0, hintUsed |-> FALSE],
            !.questionStartTime = IF v = "QuizInterface" THEN @ ELSE s.now,
            !.inflight = Append(AbortInFlight(@),
                                [ topic |-> c.topic, level |-> c.level,
                                  asked |-> c.asked, aborted |-> FALSE ])]

\* the cells of QuizInterface before the mount effect has run
QuizCells(v, subj, time) ==
    [ currentQuestion |-> NoQuestion,
      timeRemaining |-> time,
      selectedAnswer |-> Null,
      showHint |-> FALSE,
      showExplanation |-> FALSE,
      currentTopic |-> Topics(subj)[1],
      currentDifficultyIndex |-> 0,
      correctStreak |-> 0,
      isLoading |-> (v # "QuizInterface"),
      error |-> Null,
      testCompleted |-> FALSE,
      isAnswerProcessing |-> FALSE,
      currentQuestionStats |-> [attempts |-> 0, hintUsed |-> FALSE],
      askedQuestions |-> {},
      testReport |-> InitialReport,
      isMounted |-> TRUE,
      inflight |-> <<>>,
      timeouts |-> <<>>,
      now |-> 0,
      testDuration |-> time,
      questionStartTime |-> 0 ]

\* QuizInterface after its first render and the mount effect
MountQuiz(v, subj, time) ==
    LET s == QuizCells(v, subj, time) IN FetchNextQuestion(v, s, Closure(v, s))

\* a component that is not mounted in this session
Unmounted == [isMounted |-> FALSE]

(***************************************************************************)
(* QuizInterface: progression policy.                                      *)
(***************************************************************************)
\* the next topic without the wrap to the first
NextTopicNoWrap(subj, topic) ==
    LET topics == Topics(subj)
        nextIndex == Min(IndexOf(topics, topic, 1) + 1, Len(topics) - 1)
    IN  topics[nextIndex + 1]

\* topics[(topics.indexOf(topic) + 1) % topics.length]
NextTopic(subj, topic) ==
    LET topics == Topics(subj)
        nextIndex == (IndexOf(topics, topic, 1) + 1) % Len(topics)
    IN  topics[nextIndex + 1]

\* the progression of handleSubmit raising the difficulty one answer late
ProgressSubmitLate(subj, s) ==
    LET newStreak == s.correctStreak + 1 IN
    IF newStreak > STREAK_THRESHOLD
    THEN IF s.currentDifficultyIndex < Len(DIFFICULTY_LEVELS("part_001")) - 1
         THEN [s EXCEPT !.currentDifficultyIndex = @ + 1, !.correctStreak = 0]
         ELSE [s EXCEPT !.currentTopic = NextTopic(subj, @),
                        !.currentDifficultyIndex = 0,
                        !.correctStreak = 0]
    ELSE [s EXCEPT !.correctStreak = newStreak]

\* "Handle difficulty progression" of handleSubmit (part_001)
ProgressSubmit(subj, s) ==
    LET newStreak == s.correctStreak + 1 IN
    IF newStreak >= STREAK_THRESHOLD
    THEN IF s.currentDifficultyIndex < Len(DIFFICULTY_LEVELS("part_001")) - 1
         THEN [s EXCEPT !.currentDifficultyIndex = @ + 1, !.correctStreak = 0]
         ELSE [s EXCEPT !.currentTopic = NextTopic(subj, @),
                        !.currentDifficultyIndex = 0,
                        !.correctStreak = 0]
    ELSE [s EXCEPT !.correctStreak = newStreak]

\* the updater of handleAnswer keeping the count when the topic changes
ProgressAnswerKeepsCount(v, subj, s) ==
    LET newCount == s.correctStreak + 1 IN
    IF newCount >= CONSECUTIVE_TOPIC_CHANGE
    THEN [s EXCEPT !.currentTopic = NextTopic(subj, @),
                   !.currentDifficultyIndex = 0,
                   !.correctStreak = newCount]
    ELSE [s EXCEPT !.currentDifficultyIndex = Min(newCount, Len(DIFFICULTY_LEVELS(v)) - 1),
                   !.correctStreak = newCount]

\* setConsecutiveCorrect updater of handleAnswer (QuizInterface.tsx, part_002)
ProgressAnswer(v, subj, s) ==
    LET newCount == s.correctStreak + 1 IN
    IF newCount >= CONSECUTIVE_TOPIC_CHANGE
    THEN [s EXCEPT !.currentTopic = NextTopic(subj, @),
                   !.currentDifficultyIndex = 0,
                   !.correctStreak = 0]
    ELSE [s EXCEPT !.currentDifficultyIndex = Min(newCount, Len(DIFFICULTY_LEVELS(v)) - 1),
                   !.correctStreak = newCount]

(***************************************************************************)
(* QuizInterface: handlers.                                                *)
(***************************************************************************)
\* the effect "Update hints used in the test report" (part_001)
HintEffect(s) ==
    IF s.showHint /\ ~s.currentQuestionStats.hintUsed
    THEN [s EXCEPT !.testReport.hintsUsed = @ + 1,
                   !.currentQuestionStats.hintUsed = TRUE]
    ELSE s

\* the time spent measured from the mount instead of the question's start
TimeSpentSinceMount(s) == s.now

\* Math.floor((Date.now() - questionStartTime.current) / 1000)
TimeSpent(s) == s.now - s.questionStartTime

\* the hint shown again on the second incorrect submission
ShowsHintTwice(newAttempts) == newAttempts <= 2

\* no incorrect submission answered with the hint
ShowsHintNever(newAttempts) == FALSE

\* newAttempts === 1: an incorrect submission shows the hint instead of being
\* recorded
ShowsHintFirst(newAttempts) == newAttempts = 1

\* handleSubmit with the streak kept by a final incorrect submission
HandleSubmitKeepsStreak(subj, s) ==
    IF s.currentQuestion = NoQuestion \/ s.testCompleted \/ s.isAnswerProcessing
       \/ s.selectedAnswer = Null
    THEN s
    ELSE
    LET v == "part_001"
        q == s.currentQuestion
        st == s.currentQuestionStats
        isCorrect == s.selectedAnswer = q.correctAnswer
        difficulty == LevelName(v, s.currentDifficultyIndex)
        s1 == [s EXCEPT !.currentQuestionStats.attempts = @ + 1]
    IN  IF isCorrect
        THEN [ProgressSubmit(subj, s1) EXCEPT
                 !.testReport = ReportCorrect(@, s.currentTopic, q, st, TimeSpent(s), TRUE, difficulty),
                 !.showExplanation = TRUE]
        ELSE IF ShowsHintFirst(st.attempts + 1)
        THEN HintEffect([s1 EXCEPT !.showHint = TRUE])
        ELSE [s1 EXCEPT
                 !.testReport = ReportIncorrect(@, s.currentTopic, q, st, TimeSpent(s), TRUE, difficulty),
                 !.showExplanation = TRUE]

\* handleSubmit (part_001)
HandleSubmit(subj, s) ==
    IF s.currentQuestion = NoQuestion \/ s.testCompleted \/ s.isAnswerProcessing
       \/ s.selectedAnswer = Null
    THEN s
    ELSE
    LET v == "part_001"
        q == s.currentQuestion
        st == s.currentQuestionStats
        isCorrect == s.selectedAnswer = q.correctAnswer
        difficulty == LevelName(v, s.currentDifficultyIndex)
        s1 == [s EXCEPT !.currentQuestionStats.attempts = @ + 1]
    IN  IF isCorrect
        THEN [ProgressSubmit(subj, s1) EXCEPT
                 !.testReport = ReportCorrect(@, s.currentTopic, q, st, TimeSpent(s), TRUE, difficulty),
                 !.showExplanation = TRUE]
        ELSE IF ShowsHintFirst(st.attempts + 1)
        THEN HintEffect([s1 EXCEPT !.showHint = TRUE])
        ELSE [s1 EXCEPT
                 !.correctStreak = 0,
                 !.testReport = ReportIncorrect(@, s.currentTopic, q, st, TimeSpent(s), TRUE, difficulty),
                 !.showExplanation = TRUE]

\* handleAnswer (QuizInterface.tsx)
HandleAnswerTsx(subj, s, answer) ==
    IF s.currentQuestion = NoQuestion \/ s.testCompleted \/ s.isAnswerProcessing
    THEN s
    ELSE
    LET v == "QuizInterface"
        q == s.currentQuestion
        attemptCount == s.currentQuestionStats.attempts
        isCorrect == answer = q.correctAnswer
        timeSpent == TEST_DURATION_SECONDS(s) - s.timeRemaining
        s1 == [s EXCEPT
                 !.isAnswerProcessing = TRUE,
                 !.selectedAnswer = answer,
                 !.testReport = ReportAnswer(@, s.currentTopic, q, attemptCount, s.showHint, timeSpent, isCorrect)]
    IN  IF isCorrect
        THEN [ProgressAnswer(v, subj, s1) EXCEPT
                 !.timeouts = Append(@, Closure(v, s))]
        ELSE [s1 EXCEPT
                 !.correctStreak = 0,
                 !.currentDifficultyIndex = 0,
                 !.currentQuestionStats.attempts = @ + 1,
                 !.showHint = IF attemptCount = 0 THEN TRUE ELSE @,
                 !.showExplanation = IF attemptCount = 0 THEN @ ELSE TRUE,
                 !.isAnswerProcessing = FALSE]

\* handleAnswer (part_002)
HandleAnswerPart002(subj, s, answer) ==
    IF s.currentQuestion = NoQuestion \/ s.testCompleted \/ s.isAnswerProcessing
    THEN s
    ELSE
    LET v == "part_002"
        q == s.currentQuestion
        st == s.currentQuestionStats
        isCorrect == answer = q.correctAnswer
        s1 == [s EXCEPT
                 !.isAnswerProcessing = TRUE,
                 !.currentQuestionStats =
                     [attempts |-> st.attempts + 1, hintUsed |-> st.hintUsed \/ s.showHint]]
    IN  IF isCorrect
        THEN [ProgressAnswer(v, subj, s1) EXCEPT
                 !.selectedAnswer = answer,
                 !.testReport = ReportCorrect(@, s.currentTopic, q, st, TimeSpent(s), FALSE, Null),
                 !.timeouts = Append(@, Closure(v, s))]
        ELSE IF ShowsHintFirst(st.attempts + 1)
        THEN [s1 EXCEPT !.showHint = TRUE, !.isAnswerProcessing = FALSE]
        ELSE [s1 EXCEPT
                 !.selectedAnswer = answer,
                 !.showExplanation = TRUE,
                 !.testReport = ReportIncorrect(@, s.currentTopic, q, st, TimeSpent(s), FALSE, Null),
                 !.isAnswerProcessing = FALSE]

\* handleNextQuestion
HandleNextQuestion(v, s) ==
    FetchNextQuestion(v, [s EXCEPT !.showExplanation = FALSE], Closure(v, s))

\* the callback of setTimeout(..., 1500) in handleAnswer, created with closure c
AnswerTimeout(v, s, c) ==
    IF ~s.isMounted THEN s
    ELSE FetchNextQuestion(v, [s EXCEPT !.isAnswerProcessing = FALSE], c)

Remove(seq, i) == [j \in 1..(Len(seq) - 1) |-> IF j < i THEN seq[j] ELSE seq[j + 1]]

\* fetchNextQuestion after its await, the response being ok and carrying `data`
FetchResolved(v, s, r, data) ==
    IF r.aborted
    THEN \* AbortError: catch sets no error, finally clears isLoading
         IF s.isMounted THEN [s EXCEPT !.isLoading = FALSE] ELSE s
    ELSE IF ~s.isMounted THEN s
    ELSE IF v = "QuizInterface" /\ data.id \in r.asked
    THEN \* return fetchNextQuestion(): the same closure again, then finally
         [FetchNextQuestion(v, s, [ topic |-> r.topic, level |-> r.level,
                                    asked |-> r.asked, testCompleted |-> FALSE,
                                    isAnswerProcessing |-> FALSE ])
             EXCEPT !.isLoading = FALSE]
    ELSE [s EXCEPT
            !.askedQuestions = IF v = "QuizInterface" THEN @ \cup {data.id} ELSE @,
            !.currentQuestion = data,
            !.testReport.totalQuestions = @ + 1,
            !.isLoading = FALSE]

\* a failed fetch counted as a question
FetchRejectedCounted(v, s, r) ==
    IF ~s.isMounted THEN s
    ELSE IF r.aborted THEN [s EXCEPT !.isLoading = FALSE]
    ELSE [s EXCEPT !.error = "Failed to load question", !.isLoading = FALSE,
                   !.testReport.totalQuestions = @ + 1]

\* fetchNextQuestion after its await, the response being not ok or the fetch rejecting
FetchRejected(v, s, r) ==
    IF ~s.isMounted THEN s
    ELSE IF r.aborted THEN [s EXCEPT !.isLoading = FALSE]
    ELSE [s EXCEPT !.error = "Failed to load question", !.isLoading = FALSE]

\* cleanup of the mount effect
UnmountQuiz(s) == [s EXCEPT !.isMounted = FALSE, !.inflight = AbortInFlight(@)]

\* the interval callback of the timer effect, with the effects that follow a
\* timeRemaining of 0: setTestCompleted(true), then onTestComplete(testReport)
TimerTick(s) ==
    LET newValue == Max(0, s.timeRemaining - 1)
        s1 == [s EXCEPT !.timeRemaining = newValue, !.now = @ + 1]
    IN  IF newValue = 0 THEN [s1 EXCEPT !.testCompleted = TRUE] ELSE s1

\* handleTestComplete of Home; its testReport cell is <<>> for null and
\* <<report>> for a report
HandleTestComplete(p, report) ==
    [p EXCEPT !.isTestComplete = TRUE, !.testReport = <<report>>]

\* Home renders QuizInterface unless isTestComplete && testReport
RendersQuiz(p) == ~(p.isTestComplete /\ p.testReport # <<>>)

(***************************************************************************)
(* QuizInterface: events.                                                  *)
(***************************************************************************)
Recorded(s) == Len(s.testReport.questionsData)

\* the question card is rendered: !isLoading && currentQuestion
CardShown(s) == s.isMounted /\ ~s.isLoading /\ s.currentQuestion # NoQuestion

\* QuizInterface moves to s2, having consumed `odd` off-path inputs
QuizStep(s2, odd) ==
    /\ Recorded(s2) - Recorded(quiz) <= budget.rec
    /\ odd <= budget.odd
    /\ budget' = [rec |-> budget.rec - (Recorded(s2) - Recorded(quiz)),
                  odd |-> budget.odd - odd]
    /\ quiz' = s2
    /\ UNCHANGED <<variant, subject, qi, server, service>>

\* click on an option button (part_001): setSelectedAnswer(option)
SelectAnswer ==
    /\ variant = "part_001"
    /\ CardShown(quiz) /\ ~quiz.showExplanation
    /\ \E option \in Options :
          /\ option # quiz.selectedAnswer
          /\ QuizStep([quiz EXCEPT !.selectedAnswer = option], 0)
    /\ UNCHANGED <<parent, nextId>>

\* click on Clear Selection (part_001)
ClearSelection ==
    /\ variant = "part_001"
    /\ CardShown(quiz) /\ ~quiz.showExplanation
    /\ quiz.selectedAnswer # Null /\ ~quiz.isAnswerProcessing
    /\ QuizStep([quiz EXCEPT !.selectedAnswer = Null], 0)
    /\ UNCHANGED <<parent, nextId>>

\* click on Show Hint (part_001), and the hint effect
ShowHintClick ==
    /\ variant = "part_001"
    /\ CardShown(quiz) /\ ~quiz.showExplanation
    /\ ~quiz.showHint /\ quiz.selectedAnswer = Null
    /\ QuizStep(HintEffect([quiz EXCEPT !.showHint = TRUE]), 1)
    /\ UNCHANGED <<parent, nextId>>

\* click on Submit Answer (part_001)
Submit ==
    /\ variant = "part_001"
    /\ CardShown(quiz) /\ ~quiz.showExplanation
    /\ quiz.selectedAnswer # Null /\ ~quiz.isAnswerProcessing
    /\ QuizStep(HandleSubmit(subject, quiz),
                IF quiz.selectedAnswer = quiz.currentQuestion.correctAnswer THEN 0 ELSE 1)
    /\ UNCHANGED <<parent, nextId>>

\* click on an option button (QuizInterface.tsx, part_002)
Answer ==
    /\ variant \in {"QuizInterface", "part_002"}
    /\ CardShown(quiz)
    /\ quiz.selectedAnswer = Null /\ ~quiz.isAnswerProcessing
    /\ \E option \in Options :
          QuizStep(IF variant = "QuizInterface"
                   THEN HandleAnswerTsx(subject, quiz, option)
                   ELSE HandleAnswerPart002(subject, quiz, option),
                   IF option = quiz.currentQuestion.correctAnswer THEN 0 ELSE 1)
    /\ UNCHANGED <<parent, nextId>>

\* click on Continue
Continue ==
    /\ variant \in QuizVariants
    /\ CardShown(quiz) /\ quiz.showExplanation
    /\ QuizStep(HandleNextQuestion(variant, quiz), 0)
    /\ UNCHANGED <<parent, nextId>>

\* click on Retry
Retry ==
    /\ variant \in QuizVariants
    /\ quiz.isMounted /\ quiz.error # Null
    /\ QuizStep(FetchNextQuestion(variant, quiz, Closure(variant, quiz)), 0)
    /\ UNCHANGED <<parent, nextId>>

\* the route answers a request with 200 and a question with a fresh id
FetchSucceeds ==
    /\ variant \in QuizVariants
    /\ \E i \in DOMAIN quiz.inflight :
          LET r == quiz.inflight[i]
              data == [ id |-> nextId + 1, topic |-> r.topic, level |-> r.level,
                        correctAnswer |-> CorrectOption ]
          IN  /\ ~r.aborted
              /\ QuizStep(FetchResolved(variant, [quiz EXCEPT !.inflight = Remove(@, i)], r, data), 0)
    /\ nextId' = nextId + 1
    /\ UNCHANGED parent

\* the route answers a request with an error status, or the network fails
FetchFails ==
    /\ variant \in QuizVariants
    /\ \E i \in DOMAIN quiz.inflight :
          LET r == quiz.inflight[i]
          IN  /\ ~r.aborted
              /\ QuizStep(FetchRejected(variant, [quiz EXCEPT !.inflight = Remove(@, i)], r), 1)
    /\ UNCHANGED <<parent, nextId>>

\* the fetch of an aborted request rejects with AbortError
FetchAborts ==
    /\ variant \in QuizVariants
    /\ \E i \in DOMAIN quiz.inflight :
          LET r == quiz.inflight[i]
          IN  /\ r.aborted
              /\ QuizStep(FetchRejected(variant, [quiz EXCEPT !.inflight = Remove(@, i)], r), 0)
    /\ UNCHANGED <<parent, nextId>>

\* 1500 ms after a correct answer (QuizInterface.tsx, part_002)
TimeoutFires ==
    /\ variant \in QuizVariants
    /\ \E i \in DOMAIN quiz.timeouts :
          QuizStep(AnswerTimeout(variant, [quiz EXCEPT !.timeouts = Remove(@, i)], quiz.timeouts[i]), 0)
    /\ UNCHANGED <<parent, nextId>>

\* one second passes on the session timer
Tick ==
    /\ variant \in QuizVariants
    /\ quiz.isMounted /\ quiz.timeRemaining > 0 /\ ~quiz.testCompleted
    /\ LET s1 == TimerTick(quiz)
           p1 == IF s1.testCompleted THEN HandleTestComplete(parent, s1.testReport) ELSE parent
       IN  /\ parent' = p1
           /\ QuizStep(IF RendersQuiz(p1) THEN s1 ELSE UnmountQuiz(s1), 0)
    /\ UNCHANGED nextId

\* the interval callback of the timer effect, and the render of its update;
\* QuizInterface.tsx sets testCompleted inside the updater
TimerCallback(v, s) ==
    LET newValue == Max(0, s.timeRemaining - 1)
        s1 == [s EXCEPT !.timeRemaining = newValue, !.now = @ + 1]
    IN  IF v = "QuizInterface" /\ newValue = 0
        THEN [s1 EXCEPT !.testCompleted = TRUE]
        ELSE s1

\* an expiry effect that never sets testCompleted
ExpiryEffectSkipped(s) == s

\* the timer effect after a render (part_001, part_002):
\* if (timeRemaining === 0) setTestCompleted(true)
ExpiryEffect(s) ==
    IF s.timeRemaining = 0 THEN [s EXCEPT !.testCompleted = TRUE] ELSE s

\* one second passes: the interval callback runs and its update is rendered
TimerCallbackRuns ==
    /\ variant \in QuizVariants
    /\ quiz.isMounted /\ quiz.timeRemaining > 0 /\ ~quiz.testCompleted
    /\ QuizStep(TimerCallback(variant, quiz), 0)
    /\ UNCHANGED <<parent, nextId>>

\* the timer effect runs after the render that shows timeRemaining 0
ExpiryEffectRuns ==
    /\ variant \in {"part_001", "part_002"}
    /\ quiz.isMounted /\ quiz.timeRemaining = 0 /\ ~quiz.testCompleted
    /\ QuizStep(ExpiryEffect(quiz), 0)
    /\ UNCHANGED <<parent, nextId>>

\* the completion effect runs after a render that changed testCompleted or
\* testReport: if (testCompleted) onTestComplete(testReport)
CompletionEffectRuns ==
    /\ variant \in QuizVariants
    /\ quiz.isMounted /\ quiz.testCompleted
    /\ parent.testReport # <<quiz.testReport>>
    /\ parent' = HandleTestComplete(parent, quiz.testReport)
    /\ QuizStep(quiz, 0)
    /\ UNCHANGED nextId

\* Home renders after handleTestComplete and no longer renders QuizInterface
HomeRenders ==
    /\ variant \in QuizVariants
    /\ quiz.isMounted /\ ~RendersQuiz(parent)
    /\ QuizStep(UnmountQuiz(quiz), 0)
    /\ UNCHANGED <<parent, nextId>>

\* the events of QuizInterface, every callback and effect of the expiry a
\* step of its own
ExpiryNext ==
    \/ SelectAnswer
    \/ ClearSelection
    \/ ShowHintClick
    \/ Submit
    \/ Answer
    \/ Continue
    \/ Retry
    \/ FetchSucceeds
    \/ FetchFails
    \/ FetchAborts
    \/ TimeoutFires
    \/ TimerCallbackRuns
    \/ ExpiryEffectRuns
    \/ CompletionEffectRuns
    \/ HomeRenders

QuizNext ==
    \/ SelectAnswer
    \/ ClearSelection
    \/ ShowHintClick
    \/ Submit
    \/ Answer
    \/ Continue
    \/ Retry
    \/ FetchSucceeds
    \/ FetchFails
    \/ FetchAborts
    \/ TimeoutFires
    \/ Tick

(***************************************************************************)
(* QuestionInterface: state.                                               *)
(***************************************************************************)
QUESTION_TIME_LIMIT == 60
CONSECUTIVE_CORRECT_FOR_LEVEL_UP == 7

\* type Level = 1 | 2 | 3 | 4 | 5
Levels == 1..5
MAX_LEVEL == 5

\* questions in one generated batch
BatchLength == 2

initialMetrics ==
    [ correctAnswers |-> 0,
      totalAttempts |-> 0,
      averageTime |-> [num |-> 0, den |-> 1],
      hintsUsed |-> 0,
      timeoutsExpired |-> 0,
      currentLevel |-> 1,
      questionsPerLevel |-> [l \in Levels |-> 0],
      successRatePerLevel |-> [l \in Levels |-> [num |-> 0, den |-> 1]],
      unattemptedQuestions |-> 0,
      consecutiveCorrect |-> 0 ]

\* currentBatch === null
NoBatch == [questions |-> <<>>, currentIndex |-> 0, level |-> 0]

\* QuestionInterface after its first render
QuestionInterfaceCells ==
    [ isLoading |-> FALSE,
      error |-> Null,
      questionReady |-> FALSE,
      sessionState |->
          [ currentBatch |-> NoBatch,
            attempts |-> <<>>,
            timeRemaining |-> QUESTION_TIME_LIMIT,
            metrics |-> initialMetrics,
            isSessionActive |-> FALSE,
            currentQuestionTimer |-> QUESTION_TIME_LIMIT,
            showHint |-> FALSE,
            showExplanation |-> FALSE ],
      selectedAnswer |-> "",
      startTime |-> 0,
      currentAttempt |-> 1,
      now |-> 0,
      \* pending generateQuestionBatch calls, each with the level it was given
      loads |-> <<>>,
      \* pending setTimeout(() => setQuestionReady(true), 100)
      readyTimers |-> 0,
      \* pending setTimeout(() => moveToNextQuestion(false), 3000), each with the
      \* level its loadQuestionBatch closure holds
      moveTimers |-> <<>>,
      \* the level held by the moveToNextQuestion that the memoised
      \* handleTimeExpired captured
      expiredLevel |-> 1 ]

\* sessionState.currentBatch?.questions[sessionState.currentBatch.currentIndex]
HasCurrentQuestion(ss) ==
    /\ ss.currentBatch # NoBatch
    /\ ss.currentBatch.currentIndex + 1 \in DOMAIN ss.currentBatch.questions

GetCurrentQuestion(ss) == ss.currentBatch.questions[ss.currentBatch.currentIndex + 1]

(***************************************************************************)
(* QuestionInterface: handlers.                                            *)
(***************************************************************************)
\* loadQuestionBatch up to its await; `level` is the level its closure holds
LoadQuestionBatch(s, level) ==
    [s EXCEPT
        !.isLoading = TRUE,
        !.error = Null,
        !.questionReady = FALSE,
        !.loads = Append(@, [level |-> level])]

\* loadQuestionBatch after generateQuestionBatch has resolved with `questions`
LoadResolved(s, questions) ==
    [s EXCEPT
        !.sessionState.currentBatch =
            [ questions |-> questions,
              currentIndex |-> 0,
              level |-> s.sessionState.metrics.currentLevel ],
        !.sessionState.currentQuestionTimer = QUESTION_TIME_LIMIT,
        !.sessionState.showHint = FALSE,
        !.sessionState.showExplanation = FALSE,
        !.startTime = s.now,
        !.selectedAnswer = "",
        !.currentAttempt = 1,
        !.readyTimers = @ + 1,
        !.isLoading = FALSE]

\* loadQuestionBatch after generateQuestionBatch has rejected
LoadRejected(s) ==
    [s EXCEPT
        !.error = "Failed to load questions. Please try again.",
        !.isLoading = FALSE]

\* moveToNextQuestion(wasCorrect), its loadQuestionBatch holding `level`
MoveToNextQuestion(s, wasCorrect, level) ==
    LET prev == s.sessionState
        needsNewBatch ==
            \/ wasCorrect /\ prev.metrics.consecutiveCorrect >= CONSECUTIVE_CORRECT_FOR_LEVEL_UP
            \/ prev.currentBatch.currentIndex = Len(prev.currentBatch.questions) - 1
        s1 == [s EXCEPT !.questionReady = FALSE]
        s2 == IF prev.currentBatch = NoBatch THEN s1
              ELSE IF needsNewBatch THEN LoadQuestionBatch(s1, level)
              ELSE [s1 EXCEPT
                      !.sessionState.currentBatch.currentIndex = @ + 1,
                      !.sessionState.currentQuestionTimer = QUESTION_TIME_LIMIT,
                      !.sessionState.showHint = FALSE,
                      !.sessionState.showExplanation = FALSE]
    IN  [s2 EXCEPT
            !.selectedAnswer = "",
            !.startTime = s.now,
            !.currentAttempt = 1,
            !.readyTimers = @ + 1]

\* handleTimeExpired
HandleTimeExpired(s) ==
    IF ~HasCurrentQuestion(s.sessionState) THEN s
    ELSE
    LET currentQuestion == GetCurrentQuestion(s.sessionState) IN
    [s EXCEPT
        !.sessionState.showExplanation = TRUE,
        !.sessionState.attempts =
            Append(@, [ questionId |-> currentQuestion.id,
                        isCorrect |-> FALSE,
                        timeTaken |-> QUESTION_TIME_LIMIT,
                        usedHint |-> s.sessionState.showHint,
                        numberOfAttempts |-> s.currentAttempt,
                        level |-> currentQuestion.level,
                        attemptedAt |-> s.now,
                        timeoutExpired |-> TRUE ]),
        !.sessionState.metrics.timeoutsExpired = @ + 1,
        !.sessionState.metrics.unattemptedQuestions = @ + 1,
        !.sessionState.metrics.consecutiveCorrect = 0,
        !.moveTimers = Append(@, [level |-> s.expiredLevel])]

\* attempts.filter(a => a.level === level [&& a.isCorrect]).length
CountAttempts(attempts, level, onlyCorrect) ==
    Cardinality({i \in DOMAIN attempts :
                    /\ attempts[i].level = level
                    /\ (onlyCorrect => attempts[i].isCorrect)})

\* the level raised without the test against the highest level
LevelAfterUnguarded(newConsecutiveCorrect, currentLevel) ==
    IF newConsecutiveCorrect >= CONSECUTIVE_CORRECT_FOR_LEVEL_UP
    THEN currentLevel + 1
    ELSE currentLevel

\* the level after an answer that makes the streak newConsecutiveCorrect
LevelAfter(newConsecutiveCorrect, currentLevel) ==
    IF newConsecutiveCorrect >= CONSECUTIVE_CORRECT_FOR_LEVEL_UP /\ currentLevel < MAX_LEVEL
    THEN currentLevel + 1
    ELSE currentLevel

\* the streak after an answer
StreakAfter(isCorrect, consecutiveCorrect) ==
    IF isCorrect THEN consecutiveCorrect + 1 ELSE 0

\* handleAnswerSubmit
HandleAnswerSubmit(s) ==
    IF ~HasCurrentQuestion(s.sessionState) THEN s
    ELSE
    LET ss == s.sessionState
        currentQuestion == GetCurrentQuestion(ss)
        isCorrect == s.selectedAnswer = currentQuestion.correctAnswer
        timeTaken == s.now - s.startTime
    IN
    IF ~isCorrect /\ s.currentAttempt = 1
    THEN [s EXCEPT !.sessionState.showHint = TRUE, !.currentAttempt = 2]
    ELSE
    LET newAttempt ==
            [ questionId |-> currentQuestion.id,
              isCorrect |-> isCorrect,
              timeTaken |-> timeTaken,
              usedHint |-> ss.showHint,
              numberOfAttempts |-> s.currentAttempt,
              level |-> currentQuestion.level,
              attemptedAt |-> s.now,
              timeoutExpired |-> FALSE ]
        newConsecutiveCorrect == StreakAfter(isCorrect, ss.metrics.consecutiveCorrect)
        newLevel == LevelAfter(newConsecutiveCorrect, ss.metrics.currentLevel)
        levelAttempts == CountAttempts(ss.attempts, currentQuestion.level, FALSE) + 1
        levelSuccesses ==
            CountAttempts(ss.attempts, currentQuestion.level, TRUE) + BoolToInt(isCorrect)
        s1 == [s EXCEPT
                 !.sessionState.attempts = Append(@, newAttempt),
                 !.sessionState.metrics =
                     [@ EXCEPT
                        !.correctAnswers = @ + BoolToInt(isCorrect),
                        !.totalAttempts = @ + 1,
                        !.averageTime =
                            [ num |-> ss.metrics.averageTime.num + timeTaken,
                              den |-> ss.metrics.totalAttempts + 1 ],
                        !.hintsUsed = @ + BoolToInt(ss.showHint),
                        !.currentLevel = newLevel,
                        !.questionsPerLevel[currentQuestion.level] = @ + 1,
                        !.successRatePerLevel[currentQuestion.level] =
                            [num |-> levelSuccesses * 100, den |-> levelAttempts],
                        !.consecutiveCorrect = newConsecutiveCorrect],
                 !.sessionState.showExplanation = ~isCorrect]
    IN  IF ~isCorrect
        THEN [s1 EXCEPT !.moveTimers = Append(@, [level |-> ss.metrics.currentLevel])]
        ELSE MoveToNextQuestion(s1, TRUE, ss.metrics.currentLevel)

\* startSession
StartSession(s) ==
    [s EXCEPT
        !.sessionState.isSessionActive = TRUE,
        !.sessionState.currentQuestionTimer = QUESTION_TIME_LIMIT]

(***************************************************************************)
(* QuestionInterface: effects.                                             *)
(***************************************************************************)
\* dependencies of the timer effect; handleTimeExpired stands for its own
\* dependencies, currentAttempt and sessionState.currentBatch
TimerEffectDeps(s) ==
    << s.sessionState.isSessionActive, s.sessionState.currentQuestionTimer,
       s.questionReady, s.sessionState.showExplanation,
       s.currentAttempt, s.sessionState.currentBatch >>

\* the timer effect has an interval running
IntervalRunning(s) ==
    /\ s.sessionState.isSessionActive
    /\ s.questionReady
    /\ s.sessionState.currentQuestionTimer > 0
    /\ ~s.sessionState.showExplanation

\* the dependencies of the load effect ask for a load
LoadEffectFires(s) ==
    /\ s.sessionState.isSessionActive
    /\ s.sessionState.currentBatch = NoBatch
    /\ ~s.isLoading

RECURSIVE RunEffects(_, _)
\* the renders and effects that follow a change from the rendered state `old`
\* to `new`, until a render runs no effect that sets state
RunEffects(old, new) ==
    LET rendered ==
            IF <<new.currentAttempt, new.sessionState.currentBatch>>
                 # <<old.currentAttempt, old.sessionState.currentBatch>>
            THEN [new EXCEPT !.expiredLevel = new.sessionState.metrics.currentLevel]
            ELSE new
        afterLoad ==
            IF LoadEffectFires(rendered)
            THEN LoadQuestionBatch(rendered, rendered.sessionState.metrics.currentLevel)
            ELSE rendered
        afterTimer ==
            IF /\ TimerEffectDeps(old) # TimerEffectDeps(rendered)
               /\ ~IntervalRunning(rendered)
               /\ rendered.sessionState.currentQuestionTimer = 0
            THEN [HandleTimeExpired(rendered) EXCEPT
                     !.isLoading = afterLoad.isLoading,
                     !.error = afterLoad.error,
                     !.questionReady = afterLoad.questionReady,
                     !.loads = afterLoad.loads]
            ELSE afterLoad
    IN  IF afterTimer = rendered THEN rendered ELSE RunEffects(rendered, afterTimer)

(***************************************************************************)
(* QuestionInterface: events.                                              *)
(***************************************************************************)
\* QuestionInterface moves to s2 and its effects run
QuestionInterfaceStep(s2, odd) ==
    LET s3 == RunEffects(qi, s2)
        new == Len(s3.sessionState.attempts) - Len(qi.sessionState.attempts)
    IN  /\ new <= budget.rec
        /\ odd <= budget.odd
        /\ budget' = [rec |-> budget.rec - new, odd |-> budget.odd - odd]
        /\ qi' = s3
        /\ UNCHANGED <<variant, subject, quiz, parent, server, service>>

\* the question is rendered
QuestionShown(s) ==
    /\ s.error = Null /\ ~s.isLoading
    /\ s.sessionState.isSessionActive
    /\ HasCurrentQuestion(s.sessionState)

\* click on Start Session
StartSessionClick ==
    /\ variant = "QuestionInterface"
    /\ qi.error = Null /\ ~qi.isLoading /\ ~qi.sessionState.isSessionActive
    /\ QuestionInterfaceStep(StartSession(qi), 0)
    /\ UNCHANGED nextId

\* click on an option button
OptionClick ==
    /\ variant = "QuestionInterface"
    /\ QuestionShown(qi) /\ ~qi.sessionState.showExplanation
    /\ \E option \in Options :
          /\ option # qi.selectedAnswer
          /\ QuestionInterfaceStep([qi EXCEPT !.selectedAnswer = option], 0)
    /\ UNCHANGED nextId

\* click on Show Hint
HintClick ==
    /\ variant = "QuestionInterface"
    /\ QuestionShown(qi)
    /\ ~(qi.sessionState.showHint \/ qi.sessionState.showExplanation)
    /\ QuestionInterfaceStep([qi EXCEPT !.sessionState.showHint = TRUE], 1)
    /\ UNCHANGED nextId

\* click on Submit Answer
SubmitClick ==
    /\ variant = "QuestionInterface"
    /\ QuestionShown(qi)
    /\ qi.selectedAnswer # "" /\ ~qi.sessionState.showExplanation
    /\ QuestionInterfaceStep(HandleAnswerSubmit(qi),
          IF qi.selectedAnswer = GetCurrentQuestion(qi.sessionState).correctAnswer
          THEN 0 ELSE 1)
    /\ UNCHANGED nextId

\* click on Try Again
TryAgainClick ==
    /\ variant = "QuestionInterface"
    /\ qi.error # Null
    /\ QuestionInterfaceStep(LoadQuestionBatch(qi, qi.sessionState.metrics.currentLevel), 0)
    /\ UNCHANGED nextId

\* generateQuestionBatch resolves with BatchLength new questions of the level
\* it was called with
LoadSucceeds ==
    /\ variant = "QuestionInterface"
    /\ \E i \in DOMAIN qi.loads :
          LET questions ==
                  [k \in 1..BatchLength |->
                      [ id |-> nextId + k, level |-> qi.loads[i].level,
                        correctAnswer |-> CorrectOption ]]
          IN  QuestionInterfaceStep(
                  LoadResolved([qi EXCEPT !.loads = Remove(@, i)], questions), 0)
    /\ nextId' = nextId + BatchLength

\* generateQuestionBatch rejects
LoadFails ==
    /\ variant = "QuestionInterface"
    /\ \E i \in DOMAIN qi.loads :
          QuestionInterfaceStep(LoadRejected([qi EXCEPT !.loads = Remove(@, i)]), 1)
    /\ UNCHANGED nextId

\* 100 ms after a question was set up
ReadyTimerFires ==
    /\ variant = "QuestionInterface"
    /\ qi.readyTimers > 0
    /\ QuestionInterfaceStep([qi EXCEPT !.readyTimers = @ - 1, !.questionReady = TRUE], 0)
    /\ UNCHANGED nextId

\* 3000 ms after an incorrect final answer or a timeout
MoveTimerFires ==
    /\ variant = "QuestionInterface"
    /\ \E i \in DOMAIN qi.moveTimers :
          QuestionInterfaceStep(
              MoveToNextQuestion([qi EXCEPT !.moveTimers = Remove(@, i)],
                                 FALSE, qi.moveTimers[i].level), 0)
    /\ UNCHANGED nextId

\* the interval callback of the timer effect runs once
QuestionTick ==
    /\ variant = "QuestionInterface"
    /\ IntervalRunning(qi)
    /\ QuestionInterfaceStep(
          [qi EXCEPT !.sessionState.currentQuestionTimer = @ - 1, !.now = @ + 1], 1)
    /\ UNCHANGED nextId

\* the learner lets the countdown run out: the interval callback runs
\* currentQuestionTimer times with no other event in between
QuestionTimerRunsOut ==
    /\ variant = "QuestionInterface"
    /\ IntervalRunning(qi)
    /\ QuestionInterfaceStep(
          [qi EXCEPT !.sessionState.currentQuestionTimer = 0,
                     !.now = @ + qi.sessionState.currentQuestionTimer], 1)
    /\ UNCHANGED nextId

QuestionInterfaceNext ==
    \/ StartSessionClick
    \/ OptionClick
    \/ HintClick
    \/ SubmitClick
    \/ TryAgainClick
    \/ LoadSucceeds
    \/ LoadFails
    \/ ReadyTimerFires
    \/ MoveTimerFires
    \/ QuestionTick
    \/ QuestionTimerRunsOut

(***************************************************************************)
(* Text: strings are sequences of characters.                              *)
(***************************************************************************)
\* the character U+00D7, the multiplication sign
Times == "times"
Backslash == "\\"

Whitespace == {" "}

\* [a-z0-9\s×] on the characters the candidates use
KeptByNormalize == {"w", "2", "3", Times} \cup Whitespace

\* String.prototype.toLowerCase on one character
LowerCaseOf(c) == IF c = "W" THEN "w" ELSE c

ToLowerCase(text) == [i \in DOMAIN text |-> LowerCaseOf(text[i])]

RECURSIVE RemoveDelimiters(_)
\* text.replace(/\\\(|\\\)/g, "")
RemoveDelimiters(text) ==
    IF text = <<>> THEN <<>>
    ELSE IF Len(text) >= 2 /\ text[1] = Backslash /\ text[2] \in {"(", ")"}
    THEN RemoveDelimiters(SubSeq(text, 3, Len(text)))
    ELSE <<text[1]>> \o RemoveDelimiters(Tail(text))

\* text.replace(/\*/g, "×")
ReplaceStars(text) == [i \in DOMAIN text |-> IF text[i] = "*" THEN Times ELSE text[i]]

RECURSIVE TrimStart(_)
TrimStart(text) ==
    IF text # <<>> /\ text[1] \in Whitespace THEN TrimStart(Tail(text)) ELSE text

RECURSIVE TrimEnd(_)
TrimEnd(text) ==
    IF text # <<>> /\ text[Len(text)] \in Whitespace
    THEN TrimEnd(SubSeq(text, 1, Len(text) - 1))
    ELSE text

\* String.prototype.trim
Trim(text) == TrimEnd(TrimStart(text))

RECURSIVE CollapseSpaces(_)
\* text.replace(/\s+/g, " ")
CollapseSpaces(text) ==
    IF text = <<>> THEN <<>>
    ELSE IF text[1] \in Whitespace
    THEN <<" ">> \o CollapseSpaces(TrimStart(text))
    ELSE <<text[1]>> \o CollapseSpaces(Tail(text))

IsKeptByNormalize(c) == c \in KeptByNormalize

\* formatMathContent
formatMathContent(text) == Trim(ReplaceStars(RemoveDelimiters(text)))

\* normalizeQuestionContent
normalizeQuestionContent(content) ==
    Trim(CollapseSpaces(SelectSeq(ToLowerCase(content), IsKeptByNormalize)))

(***************************************************************************)
(* The question route (first POST of route.ts): state.                     *)
(***************************************************************************)
\* concurrent requests and cache clears explored
MaxRequests == 2
MaxClears == 1
\* calls of the generator explored for one request, where they are counted
MaxGeneratorCalls == 6

\* retryCount < 5
RETRY_LIMIT == 5

Requests == 1..MaxRequests

\* SUBJECT_TOPICS.mathematics, by its keys
RouteTopics == {"numbers", "algebra", "geometry", "statistics"}

\* the topic strings the requests carry
RequestTopics == {"numbers", "Numbers", "history"}

\* topic.toLowerCase()
LowerTopic(topic) == IF topic = "Numbers" THEN "numbers" ELSE topic

\* question texts the generator may produce
RawTexts ==
    { <<"2", "*", "3">>,
      <<"2", Times, "3">>,
      <<" ", "W", " ", " ", "2", "?">>,
      <<Backslash, "(", Backslash, ")">> }

GoodOptions == << <<"2">>, <<"3">>, <<"2", Times, "3">>, <<"w">> >>

\* the parsed JSON object of a completion
Candidate(text, shape) ==
    [ questionText |-> text,
      options |-> IF shape = "threeOptions" THEN SubSeq(GoodOptions, 1, 3)
                  ELSE IF shape = "repeatedOptions" THEN << <<"3">>, <<"3">>, <<"3">>, <<"3">> >>
                  ELSE GoodOptions,
      correctAnswer |-> IF shape = "starAnswer" THEN <<"2", "*", "3">> ELSE <<"3">>,
      hint |-> <<"w">>,
      explanation |-> <<"w", "3">>,
      grade |-> 4 ]

Candidates ==
    {Candidate(text, "fourOptions") : text \in RawTexts}
        \cup {Candidate(<<"2", "*", "3">>, shape) : shape \in {"threeOptions", "starAnswer"}}

\* the candidates, and one whose four options are the same string
ShapeCandidates ==
    Candidates \cup {Candidate(<<"2", "*", "3">>, "repeatedOptions")}

\* what one call of openai.chat.completions.create can end with
Completions ==
    {[kind |-> k, data |-> <<>>] : k \in {"throws", "noContent", "notJson"}}
        \cup {[kind |-> "json", data |-> <<c>>] : c \in Candidates}

\* normalizeQuestionContent(parsedData.questionText), tabulated for the candidates
NormalizedText == [c \in ShapeCandidates |-> normalizeQuestionContent(c.questionText)]

\* parsedData after its texts have been passed through formatMathContent,
\* tabulated for the candidates
Formatted ==
    [c \in ShapeCandidates |->
        [c EXCEPT
            !.questionText = formatMathContent(@),
            !.options = [i \in DOMAIN @ |-> formatMathContent(@[i])],
            !.correctAnswer = formatMathContent(@),
            !.explanation = formatMathContent(@)]]

\* a request: the locals of POST while it runs, its response afterwards.
\* discarded, clearedDuring and generatorCalls are history: whether the
\* completions discarded so far were none, duplicates only, or not only
\* duplicates, whether the cache was cleared while the request ran, and how
\* many times the request has called openai.chat.completions.create (counted
\* only where countCalls is set)
NoRequest ==
    [ pc |-> "idle", topic |-> Null, topicCache |-> 0, retryCount |-> 0,
      status |-> 0, questionData |-> <<>>,
      discarded |-> "none",
      clearedDuring |-> FALSE,
      generatorCalls |-> 0 ]

\* the module after it has been loaded
RouteLoaded ==
    [ usedQuestionCache |-> [t \in {} |-> 0],
      sets |-> <<>>,
      requests |-> [r \in Requests |-> NoRequest],
      clears |-> 0,
      uuids |-> 0,
      countCalls |-> FALSE ]

(***************************************************************************)
(* The question route: handlers.                                           *)
(***************************************************************************)
\* validateQuestion
validateQuestion(q) ==
    /\ q.id # 0 /\ q.questionText # <<>> /\ q.correctAnswer # <<>>
    /\ q.hint # <<>> /\ q.explanation # <<>> /\ q.grade # 0
    /\ Len(q.options) = 4
    /\ \E i \in DOMAIN q.options : q.options[i] = q.correctAnswer
    /\ Len(q.questionText) > 0
    /\ Len(q.hint) > 0
    /\ Len(q.explanation) > 0

\* setInterval(() => usedQuestionCache.clear(), 24 h)
ClearCache(sv) ==
    [sv EXCEPT
        !.usedQuestionCache = [t \in {} |-> 0],
        !.clears = @ + 1,
        !.requests = [r \in DOMAIN @ |->
                         IF @[r].pc = "calling" THEN [@[r] EXCEPT !.clearedDuring = TRUE]
                         ELSE @[r]]]

\* NextResponse.json(...): the locals of the request are gone
Respond(req, status, questionData) ==
    [req EXCEPT
        !.pc = "responded", !.retryCount = 0,
        !.status = status, !.questionData = questionData]

\* POST up to its first completion request, for a body that parses and passes
\* requestSchema with this topic
PostBegins(sv, r, topic) ==
    LET normalizedTopic == LowerTopic(topic) IN
    IF normalizedTopic \notin RouteTopics
    THEN [sv EXCEPT !.requests[r] = Respond(@, 400, <<>>)]
    ELSE
    LET withSet ==
            IF normalizedTopic \in DOMAIN sv.usedQuestionCache THEN sv
            ELSE [sv EXCEPT
                    !.sets = Append(@, {}),
                    !.usedQuestionCache =
                        [t \in (DOMAIN @) \cup {normalizedTopic} |->
                            IF t = normalizedTopic THEN Len(sv.sets) + 1 ELSE @[t]]]
    IN  [withSet EXCEPT
            !.requests[r] =
                [@ EXCEPT
                    !.pc = "calling",
                    !.topic = normalizedTopic,
                    !.topicCache = withSet.usedQuestionCache[normalizedTopic],
                    !.generatorCalls = IF sv.countCalls THEN 1 ELSE 0]]

\* the loop giving up one retry early
LoopOrFailEarly(sv, r, n) ==
    IF n < RETRY_LIMIT - 1
    THEN [sv EXCEPT !.requests[r].retryCount = n,
                    !.requests[r].generatorCalls = IF sv.countCalls THEN @ + 1 ELSE @]
    ELSE [sv EXCEPT !.requests[r] = Respond(@, 500, <<>>)]

\* the test of the while loop after retryCount has become n without a question
LoopOrFail(sv, r, n) ==
    IF n < RETRY_LIMIT
    THEN [sv EXCEPT !.requests[r].retryCount = n,
                    !.requests[r].generatorCalls = IF sv.countCalls THEN @ + 1 ELSE @]
    ELSE [sv EXCEPT !.requests[r] = Respond(@, 500, <<>>)]

\* one pass of the while loop from the completion to the next completion
\* request or to the response
CompletionArrives(sv, r, completion) ==
    LET req == sv.requests[r]
        seen == [sv EXCEPT !.requests[r].discarded = "other"]
    IN
    IF completion.kind = "noContent" THEN LoopOrFail(seen, r, req.retryCount)
    ELSE IF completion.kind \in {"throws", "notJson"}
    THEN LoopOrFail(seen, r, req.retryCount + 1)
    ELSE
    LET parsedData == completion.data[1]
        normalizedQuestionText == NormalizedText[parsedData]
    IN
    IF normalizedQuestionText \in sv.sets[req.topicCache]
    THEN LoopOrFail([sv EXCEPT !.requests[r].discarded =
                                   IF @ = "other" THEN @ ELSE "duplicates"],
                    r, req.retryCount + 1)
    ELSE
    LET formatted == Formatted[parsedData]
        \* crypto.randomUUID(): a value no delivered question has; the ids of
        \* discarded candidates are never seen
        question ==
            [f \in (DOMAIN formatted) \cup {"id"} |->
                IF f = "id" THEN sv.uuids + 1 ELSE formatted[f]]
    IN
    IF validateQuestion(question)
    THEN [sv EXCEPT
            !.uuids = @ + 1,
            !.sets[req.topicCache] = @ \cup {normalizedQuestionText},
            !.requests[r] = Respond(@, 200, <<question>>)]
    ELSE LoopOrFail(seen, r, req.retryCount)

(***************************************************************************)
(* The question route: events.                                             *)
(***************************************************************************)
\* a Set that neither the Map nor a running request refers to is garbage
Collect(sv) ==
    LET referenced(i) ==
            \/ \E t \in DOMAIN sv.usedQuestionCache : sv.usedQuestionCache[t] = i
            \/ \E r \in Requests :
                  sv.requests[r].pc = "calling" /\ sv.requests[r].topicCache = i
    IN  [sv EXCEPT !.sets = [i \in DOMAIN @ |-> IF referenced(i) THEN @[i] ELSE {}]]

\* the route moves to sv2
RouteStep(sv2) ==
    /\ server' = Collect(sv2)
    /\ UNCHANGED <<variant, subject, quiz, qi, service, parent, nextId, budget>>

\* a POST arrives
PostArrives ==
    \E r \in Requests, topic \in RequestTopics :
        /\ server.requests[r].pc = "idle"
        /\ \A earlier \in 1..(r - 1) : server.requests[earlier].pc # "idle"
        /\ RouteStep(PostBegins(server, r, topic))

\* the completion a request is waiting for arrives
CompletionResolves ==
    \E r \in Requests, completion \in Completions :
        /\ server.requests[r].pc = "calling"
        /\ server.requests[r].generatorCalls < MaxGeneratorCalls
        /\ RouteStep(CompletionArrives(server, r, completion))

\* the 24-hour interval fires
CacheCleared ==
    /\ server.clears < MaxClears
    /\ RouteStep(ClearCache(server))

RouteNext ==
    \/ PostArrives
    \/ CompletionResolves
    \/ CacheCleared

\* the completion a request is waiting for arrives with a question, its
\* options possibly repeated
QuestionResolves ==
    \E r \in Requests, candidate \in ShapeCandidates :
        /\ server.requests[r].pc = "calling"
        /\ RouteStep(CompletionArrives(server, r, [kind |-> "json", data |-> <<candidate>>]))

RouteShapesNext ==
    \/ PostArrives
    \/ QuestionResolves
    \/ CacheCleared

(***************************************************************************)
(* The question service (generateQuestionBatch): state.                    *)
(***************************************************************************)
MAX_RETRIES == 3

\* concurrent calls explored, and questions in one generator response
MaxCalls == 2
MaxResponseLength == 2
\* calls of the generator explored for one call of generateQuestionBatch,
\* where they are counted
MaxBatchGeneratorCalls == 5

Calls == 1..MaxCalls

SessionIds == {"easy", "other"}

\* question texts the generator may produce
BatchTexts == {"What is 8 x 7?", "What is 6 x 9?"}

\* one element of response.questions
BatchCandidate(text, hint) ==
    [ questionText |-> text,
      options |-> <<"54", "56", "48", "64">>,
      correctAnswer |-> "56",
      hint |-> hint,
      explanation |-> "8 x 7 = 56" ]

BatchCandidates ==
    {BatchCandidate(text, "8 groups of 7") : text \in BatchTexts}
        \cup {BatchCandidate("What is 8 x 7?", "")}

RECURSIVE SeqsUpTo(_, _)
\* the sequences over S of length at most n
SeqsUpTo(S, n) ==
    IF n = 0 THEN {<<>>}
    ELSE LET shorter == SeqsUpTo(S, n - 1)
         IN  shorter \cup {Append(q, x) : q \in shorter, x \in S}

\* what one call of openai.chat.completions.create can end with
BatchCompletions ==
    {[kind |-> k, questions |-> <<>>] :
        k \in {"throws", "rateLimited", "noContent", "notJson", "noQuestionsArray"}}
        \cup {[kind |-> "questions", questions |-> qs] :
                 qs \in SeqsUpTo(BatchCandidates, MaxResponseLength)}

\* a call of generateQuestionBatch.  generatorCalls and rateLimited are
\* history: how many times the call has called openai.chat.completions.create
\* and whether one of them failed with a 429 error (kept for the calls in
\* countCalls)
NoCall ==
    [ pc |-> "idle", sessionId |-> Null, level |-> 0, retryCount |-> 0,
      questions |-> <<>>, generatorCalls |-> 0, rateLimited |-> FALSE ]

\* the module after it has been loaded
ServiceLoaded ==
    [ sessionQuestionCache |-> [id \in {} |-> 0],
      calls |-> [c \in Calls |-> NoCall],
      countCalls |-> {} ]

(***************************************************************************)
(* The question service: handlers.                                         *)
(***************************************************************************)
\* generateQuestionBatch up to the first completion request
BatchBegins(sc, c, level, sessionId) ==
    LET withCache ==
            IF sessionId \in DOMAIN sc.sessionQuestionCache THEN sc
            ELSE [sc EXCEPT
                    !.sessionQuestionCache =
                        [id \in (DOMAIN @) \cup {sessionId} |->
                            IF id = sessionId
                            THEN [questions |-> <<>>, usedQuestionTexts |-> {}]
                            ELSE @[id]]]
    IN  [withCache EXCEPT
            !.calls[c] = [pc |-> "calling", sessionId |-> sessionId, level |-> level,
                          retryCount |-> 0, questions |-> <<>>,
                          generatorCalls |-> IF c \in sc.countCalls THEN 1 ELSE 0,
                          rateLimited |-> FALSE]]

\* the checks of one question in filteredQuestions.map
QuestionComplete(q) ==
    /\ q.questionText # "" /\ q.correctAnswer # "" /\ q.hint # "" /\ q.explanation # ""
    /\ Len(q.options) = 4
    /\ \E i \in DOMAIN q.options : q.options[i] = q.correctAnswer

\* how many questions filteredQuestions.map passes before it throws
PassedBeforeThrow(qs) ==
    IF \A i \in DOMAIN qs : QuestionComplete(qs[i]) THEN Len(qs)
    ELSE (CHOOSE i \in DOMAIN qs :
             /\ ~QuestionComplete(qs[i])
             /\ \A j \in 1..(i - 1) : QuestionComplete(qs[j])) - 1

\* the catch block retrying while retryCount <= MAX_RETRIES
CatchErrorOnceMore(sc, c, has429) ==
    IF has429 THEN [sc EXCEPT !.calls[c].pc = "waiting",
                              !.calls[c].rateLimited = (c \in sc.countCalls)]
    ELSE IF sc.calls[c].retryCount <= MAX_RETRIES
    THEN [sc EXCEPT !.calls[c].pc = "waiting", !.calls[c].retryCount = @ + 1]
    ELSE [sc EXCEPT !.calls[c].pc = "thrown", !.calls[c].retryCount = 0]

\* the catch block of generateWithRetry
CatchError(sc, c, has429) ==
    IF has429 THEN [sc EXCEPT !.calls[c].pc = "waiting",
                              !.calls[c].rateLimited = (c \in sc.countCalls)]
    ELSE IF sc.calls[c].retryCount < MAX_RETRIES
    THEN [sc EXCEPT !.calls[c].pc = "waiting", !.calls[c].retryCount = @ + 1]
    ELSE [sc EXCEPT !.calls[c].pc = "thrown", !.calls[c].retryCount = 0]

\* generateWithRetry from the completion to its return, its throw or its wait
BatchCompletionArrives(sc, c, completion) ==
    LET call == sc.calls[c]
        cache == sc.sessionQuestionCache[call.sessionId]
        qs == completion.questions
    IN
    IF completion.kind = "rateLimited" THEN CatchError(sc, c, TRUE)
    ELSE IF completion.kind # "questions" THEN CatchError(sc, c, FALSE)
    ELSE IF \E i \in DOMAIN qs : qs[i].questionText \in cache.usedQuestionTexts
    THEN CatchError(sc, c, FALSE)
    ELSE
    LET passed == PassedBeforeThrow(qs)
        added == {qs[i].questionText : i \in 1..passed}
        withTexts ==
            [sc EXCEPT !.sessionQuestionCache[call.sessionId].usedQuestionTexts = @ \cup added]
    IN
    IF passed < Len(qs)
    THEN CatchError(withTexts, c, FALSE)
    ELSE
    LET questions ==
            [i \in DOMAIN qs |->
                [ questionText |-> qs[i].questionText,
                  options |-> qs[i].options,
                  correctAnswer |-> qs[i].correctAnswer,
                  hint |-> qs[i].hint,
                  explanation |-> qs[i].explanation,
                  \* crypto.randomUUID(): a value no other question has
                  id |-> <<c, i>>,
                  level |-> call.level ]]
    IN  [withTexts EXCEPT
            !.sessionQuestionCache[call.sessionId].questions = @ \o questions,
            !.calls[c].pc = "returned",
            !.calls[c].retryCount = 0,
            !.calls[c].questions = questions]

(***************************************************************************)
(* The question service: events.                                           *)
(***************************************************************************)
\* the service moves to sc2
ServiceStep(sc2) ==
    /\ service' = sc2
    /\ UNCHANGED <<variant, subject, quiz, qi, server, parent, nextId, budget>>

\* generateQuestionBatch is called
BatchRequested ==
    \E c \in Calls, sessionId \in SessionIds :
        /\ service.calls[c].pc = "idle"
        /\ \A earlier \in 1..(c - 1) : service.calls[earlier].pc # "idle"
        /\ ServiceStep(BatchBegins(service, c, 1, sessionId))

\* the completion a call is waiting for arrives
BatchCompletionResolves ==
    \E c \in Calls, completion \in BatchCompletions :
        /\ service.calls[c].pc = "calling"
        /\ ServiceStep(BatchCompletionArrives(service, c, completion))

\* generateWithRetry up to its completion request, called from the catch block
RetryBegins(sc, c) ==
    [sc EXCEPT !.calls[c].pc = "calling",
               !.calls[c].generatorCalls = IF c \in sc.countCalls THEN @ + 1 ELSE @]

\* the delay before a retry ends: generateWithRetry runs again
DelayEnds ==
    \E c \in Calls :
        /\ service.calls[c].pc = "waiting"
        /\ service.calls[c].generatorCalls < MaxBatchGeneratorCalls
        /\ ServiceStep(RetryBegins(service, c))

ServiceNext ==
    \/ BatchRequested
    \/ BatchCompletionResolves
    \/ DelayEnds

\* the completions that fail whatever the cache holds: no usable response, or
\* a response whose first question lacks a field
FailingCompletions ==
    {completion \in BatchCompletions :
        \/ completion.kind # "questions"
        \/ /\ Len(completion.questions) = 1
           /\ ~QuestionComplete(completion.questions[1])}

\* the completion a call is waiting for arrives and makes the attempt fail
BatchCompletionFails ==
    \E c \in Calls, completion \in FailingCompletions :
        /\ service.calls[c].pc = "calling"
        /\ ServiceStep(BatchCompletionArrives(service, c, completion))

\* the service while every attempt of the generator fails
ServiceFailuresNext ==
    \/ BatchRequested
    \/ BatchCompletionFails
    \/ DelayEnds

(***************************************************************************)
(* Specifications.                                                         *)
(***************************************************************************)
InitSession(variants, budgets(_, _), time) ==
    /\ variant \in variants
    /\ subject \in (IF variant \in QuizVariants THEN Subjects ELSE {"mathematics"})
    /\ quiz = IF variant \in QuizVariants THEN MountQuiz(variant, subject, time) ELSE Unmounted
    /\ qi = IF variant = "QuestionInterface" THEN QuestionInterfaceCells ELSE Unmounted
    /\ server = RouteLoaded
    /\ service = ServiceLoaded
    /\ parent = [isTestComplete |-> FALSE, testReport |-> <<>>]
    /\ nextId = 0
    /\ budget \in budgets(variant, subject)

\* correct answers that take a fresh session to its first topic change
CycleLength(v) ==
    IF v = "part_001"
    THEN STREAK_THRESHOLD * Len(DIFFICULTY_LEVELS(v))
    ELSE IF v = "QuestionInterface"
    THEN CONSECUTIVE_CORRECT_FOR_LEVEL_UP + MAX_LEVEL - 1
    ELSE CONSECUTIVE_TOPIC_CHANGE

\* records and off-path inputs a session may still make
Envelope(rec, odd) == [rec |-> rec, odd |-> odd]

\* short sessions with off-path inputs
BudgetsInSpec(v, subj) == {Envelope(MaxRecorded, MaxOdd)}

\* sessions long enough for a whole progression cycle.  QuestionInterface is
\* taken through its cycle on correct answers alone and through short sessions
\* with off-path inputs; part_001 is also taken once round the subject's
\* topics on correct answers alone
BudgetsInProgression(v, subj) ==
    IF v = "QuestionInterface"
    THEN {Envelope(CycleLength(v) + MaxExtraProgression, 0),
          Envelope(MaxRecorded, MaxOddProgression)}
    ELSE IF v = "part_001"
    THEN {Envelope(CycleLength(v) + MaxExtraProgression, MaxOddProgression),
          Envelope(CycleLength(v) * Len(Topics(subj)) + MaxExtraProgression, 0)}
    ELSE {Envelope(CycleLength(v) + MaxExtraProgression, MaxOddProgression)}

Variants == QuizVariants \cup {"QuestionInterface"}

Init == InitSession(Variants, BudgetsInSpec, MaxTimeRemaining)

Next == QuizNext \/ QuestionInterfaceNext

Spec == Init /\ [][Next]_vars

\* sessions of many answers whose timer runs one second
InitProgression == InitSession(Variants, BudgetsInProgression, 1)

SpecProgression == InitProgression /\ [][Next]_vars

\* the server and the service before any request, no session under way
InitRoute ==
    /\ variant = "QuestionInterface"
    /\ subject = "mathematics"
    /\ quiz = Unmounted
    /\ qi = QuestionInterfaceCells
    /\ server = RouteLoaded
    /\ service = ServiceLoaded
    /\ parent = [isTestComplete |-> FALSE, testReport |-> <<>>]
    /\ nextId = 0
    /\ budget = Envelope(0, 0)

SpecRoute == InitRoute /\ [][RouteNext]_vars

\* sessions of QuizInterface whose timer runs one second, the callbacks and
\* effects of the expiry interleaved with the other events
InitExpiry == InitSession(QuizVariants, BudgetsInSpec, 1)

SpecExpiry == InitExpiry /\ [][ExpiryNext]_vars

\* the events of part_001 (handleSubmit), every callback and effect of the
\* expiry a step of its own
TimerNext ==
    \/ SelectAnswer
    \/ ClearSelection
    \/ ShowHintClick
    \/ Submit
    \/ Continue
    \/ Retry
    \/ FetchSucceeds
    \/ FetchFails
    \/ FetchAborts
    \/ TimerCallbackRuns
    \/ ExpiryEffectRuns
    \/ CompletionEffectRuns
    \/ HomeRenders

\* records and off-path inputs of a session that runs to its expiry
MaxRecordedTimer == 1
MaxOddTimer == 1

BudgetsInTimer(v, subj) == {Envelope(MaxRecordedTimer, MaxOddTimer)}

InitTimer == InitSession({"part_001"}, BudgetsInTimer, MaxTimeRemaining)

\* setInterval fires every second while the timer effect keeps an interval,
\* and React runs the effects of every committed render
SpecTimer ==
    /\ InitTimer
    /\ [][TimerNext]_vars
    /\ WF_vars(TimerCallbackRuns)
    /\ WF_vars(ExpiryEffectRuns)
    /\ WF_vars(CompletionEffectRuns)

\* the route with the generator calls of every request counted
InitRouteCalls ==
    /\ variant = "QuestionInterface"
    /\ subject = "mathematics"
    /\ quiz = Unmounted
    /\ qi = QuestionInterfaceCells
    /\ server = [RouteLoaded EXCEPT !.countCalls = TRUE]
    /\ service = ServiceLoaded
    /\ parent = [isTestComplete |-> FALSE, testReport |-> <<>>]
    /\ nextId = 0
    /\ budget = Envelope(0, 0)

SpecRouteCalls == InitRouteCalls /\ [][RouteNext]_vars

\* the route answering generators that return questions of every shape
SpecRouteShapes == InitRoute /\ [][RouteShapesNext]_vars

\* the question service with the generator calls of its first call counted,
\* while every attempt fails
InitServiceFailures ==
    /\ variant = "QuestionInterface"
    /\ subject = "mathematics"
    /\ quiz = Unmounted
    /\ qi = QuestionInterfaceCells
    /\ server = RouteLoaded
    /\ service = [ServiceLoaded EXCEPT !.countCalls = {1}]
    /\ parent = [isTestComplete |-> FALSE, testReport |-> <<>>]
    /\ nextId = 0
    /\ budget = Envelope(0, 0)

SpecServiceFailures == InitServiceFailures /\ [][ServiceFailuresNext]_vars

\* the question service serving concurrent calls
SpecService == InitRoute /\ [][ServiceNext]_vars

(***************************************************************************)
(* Properties of the session controllers.                                  *)
(***************************************************************************)
\* the consecutive-correct threshold of a QuizInterface variant
Threshold(v) == IF v = "part_001" THEN STREAK_THRESHOLD ELSE CONSECUTIVE_TOPIC_CHANGE

\* the highest difficulty index of a QuizInterface variant
MaxDifficultyIndex(v) == Len(DIFFICULTY_LEVELS(v)) - 1

\* this step records a correct answer in a QuizInterface variant
CorrectAnswerStep ==
    /\ variant \in QuizVariants
    /\ Recorded(quiz') = Recorded(quiz) + 1
    /\ IF variant = "QuizInterface"
       THEN Len(quiz'.timeouts) = Len(quiz.timeouts) + 1
       ELSE quiz'.testReport.questionsData[Recorded(quiz')].correct

\* the topic after `topic` in the subject's list, the first after the last
TopicAfter(subj, topic) ==
    LET topics == Topics(subj)
        i == CHOOSE k \in DOMAIN topics : topics[k] = topic
    IN  IF i = Len(topics) THEN topics[1] ELSE topics[i + 1]

RECURSIVE Advance(_, _, _)
\* the topic after n advances from `topic`
Advance(subj, topic, n) ==
    IF n = 0 THEN topic ELSE Advance(subj, NextTopic(subj, topic), n - 1)

TopicSet(subj) == {Topics(subj)[i] : i \in DOMAIN Topics(subj)}

\* C1: in every controller the difficulty index is a valid index of the
\* variant's level list (0..levelCount-1), and QuestionInterface's level is in
\* 1..5, in every reachable state.
DifficultyIndexValid ==
    /\ variant \in QuizVariants =>
          quiz.currentDifficultyIndex \in 0..MaxDifficultyIndex(variant)
    /\ variant = "QuestionInterface" =>
          qi.sessionState.metrics.currentLevel \in Levels

\* C1 witness: QuestionInterface has been answered correctly once more after
\* reaching the highest level.
AnsweredAtHighestLevel ==
    /\ variant = "QuestionInterface"
    /\ qi.sessionState.metrics.currentLevel = MAX_LEVEL
    /\ qi.sessionState.metrics.correctAnswers > CycleLength(variant)

\* C2: in each QuizInterface variant the streak is always in [0, K] and never
\* held at K: the correct answer that would make it K stores 0.
StreakNeverHeldAtThreshold ==
    /\ [](variant \in QuizVariants =>
            quiz.correctStreak \in 0..(Threshold(variant) - 1))
    /\ [][CorrectAnswerStep /\ quiz.correctStreak + 1 = Threshold(variant)
            => quiz'.correctStreak = 0]_vars

\* C2 witness: K correct answers in a row have been recorded and the streak
\* is 0 again.
StreakResetAtThreshold ==
    /\ variant \in {"QuizInterface", "part_002"}
    /\ Recorded(quiz) = Threshold(variant)
    /\ quiz.testReport.correctAnswers = Threshold(variant)
    /\ quiz.correctStreak = 0

\* C3: in QuestionInterface consecutiveCorrect is always in [0, 7], and the
\* step that raises currentLevel resets consecutiveCorrect to 0.
ConsecutiveCorrectResetOnLevelUp ==
    /\ [](variant = "QuestionInterface" =>
            qi.sessionState.metrics.consecutiveCorrect
                \in 0..CONSECUTIVE_CORRECT_FOR_LEVEL_UP)
    /\ [][variant = "QuestionInterface"
            /\ qi'.sessionState.metrics.currentLevel > qi.sessionState.metrics.currentLevel
            => qi'.sessionState.metrics.consecutiveCorrect = 0]_vars

\* C4: in part_001, a correct submission below the highest difficulty leaves
\* the index alone and adds one to the streak while the streak stays below K,
\* and the one that makes the streak K adds one to the index and stores 0.
StreakRaisesDifficulty ==
    [][variant = "part_001" /\ CorrectAnswerStep
          /\ quiz.currentDifficultyIndex < MaxDifficultyIndex(variant)
        => IF quiz.correctStreak + 1 < Threshold(variant)
           THEN /\ quiz'.currentDifficultyIndex = quiz.currentDifficultyIndex
                /\ quiz'.correctStreak = quiz.correctStreak + 1
           ELSE /\ quiz'.currentDifficultyIndex = quiz.currentDifficultyIndex + 1
                /\ quiz'.correctStreak = 0]_vars

\* C4 witness: K correct submissions from the start of a part_001 session
\* have raised the index to 1.
DifficultyRaisedOnce ==
    /\ variant = "part_001"
    /\ Recorded(quiz) = Threshold(variant)
    /\ quiz.testReport.correctAnswers = Threshold(variant)
    /\ quiz.currentDifficultyIndex = 1
    /\ quiz.correctStreak = 0

\* C5: in part_001 the correct submission that makes the streak K at the
\* highest difficulty moves currentTopic to the next topic of the list (the
\* first after the last) and stores index 0 and streak 0; currentTopic
\* changes in no other step and is always a topic of the subject; as many
\* advances as the subject has topics lead back to the topic they started from.
TopicAdvancesCyclically ==
    /\ [](variant = "part_001" => quiz.currentTopic \in TopicSet(subject))
    /\ [][variant = "part_001" /\ CorrectAnswerStep
            /\ quiz.currentDifficultyIndex = MaxDifficultyIndex(variant)
            /\ quiz.correctStreak + 1 = Threshold(variant)
          => /\ quiz'.currentTopic = TopicAfter(subject, quiz.currentTopic)
             /\ quiz'.currentDifficultyIndex = 0
             /\ quiz'.correctStreak = 0]_vars
    /\ [][variant = "part_001" /\ quiz'.currentTopic # quiz.currentTopic
          => /\ CorrectAnswerStep
             /\ quiz.currentDifficultyIndex = MaxDifficultyIndex(variant)
             /\ quiz.correctStreak + 1 = Threshold(variant)]_vars
    /\ [](\A subj \in Subjects : \A topic \in TopicSet(subj) :
            Advance(subj, topic, Len(Topics(subj))) = topic)

\* C5 witness: a part_001 session has advanced through all the subject's
\* topics and is back at the first.
TopicWrappedToFirst ==
    /\ variant = "part_001"
    /\ quiz.testReport.correctAnswers = CycleLength(variant) * Len(Topics(subject))
    /\ quiz.currentTopic = Topics(subject)[1]
    /\ quiz.currentDifficultyIndex = 0
    /\ quiz.correctStreak = 0

\* C6: in every QuizInterface variant every topic of topicStats has
\* correct <= total <= totalAttempts.
TopicStatsOrdered ==
    variant \in QuizVariants =>
        \A t \in DOMAIN quiz.testReport.topicStats :
            LET stat == quiz.testReport.topicStats[t]
            IN  stat.correct <= stat.total /\ stat.total <= stat.totalAttempts

\* C6 witness: a topic holds a question answered correctly and one given up
\* after two attempts.
TopicStatsAllDiffer ==
    /\ variant \in QuizVariants
    /\ \E t \in DOMAIN quiz.testReport.topicStats :
          LET stat == quiz.testReport.topicStats[t]
          IN  0 < stat.correct /\ stat.correct < stat.total
              /\ stat.total < stat.totalAttempts

\* C7: every recorded attempt has attemptsNeeded (numberOfAttempts in
\* QuestionInterface) equal to 1 or 2.
AttemptsNeededAtMostTwo ==
    /\ variant \in QuizVariants =>
          \A i \in DOMAIN quiz.testReport.questionsData :
              quiz.testReport.questionsData[i].attemptsNeeded \in {1, 2}
    /\ variant = "QuestionInterface" =>
          \A i \in DOMAIN qi.sessionState.attempts :
              qi.sessionState.attempts[i].numberOfAttempts \in {1, 2}

\* C7 witness: a correct answer given on the second attempt has been recorded.
CorrectOnSecondAttempt ==
    \/ /\ variant \in {"part_001", "part_002"}
       /\ \E i \in DOMAIN quiz.testReport.questionsData :
             /\ quiz.testReport.questionsData[i].attemptsNeeded = 2
             /\ quiz.testReport.questionsData[i].correct
    \/ /\ variant = "QuestionInterface"
       /\ \E i \in DOMAIN qi.sessionState.attempts :
             /\ qi.sessionState.attempts[i].numberOfAttempts = 2
             /\ qi.sessionState.attempts[i].isCorrect

(***************************************************************************)
(* Properties of the question route and the question service.              *)
(***************************************************************************)
\* the texts of the question POST delivers for a candidate
DeliveredTexts ==
    [candidate \in Candidates |->
        [ id |-> 0,
          questionText |-> formatMathContent(candidate.questionText),
          options |-> [i \in DOMAIN candidate.options |->
                          formatMathContent(candidate.options[i])],
          correctAnswer |-> formatMathContent(candidate.correctAnswer),
          hint |-> candidate.hint,
          explanation |-> formatMathContent(candidate.explanation),
          grade |-> candidate.grade ]]

\* the question POST delivers for a candidate: its texts formatted, its id new
Delivered(candidate, id) == [DeliveredTexts[candidate] EXCEPT !.id = id]

\* requests r1 and r2 were served for the same topic with no cache clear
\* between the start of either and the end of either
ServedBetweenSameClears(r1, r2) ==
    LET a == server.requests[r1]
        b == server.requests[r2]
    IN  /\ a.pc = "responded" /\ b.pc = "responded"
        /\ a.topic = b.topic /\ a.topicCache = b.topicCache
        /\ ~a.clearedDuring /\ ~b.clearedDuring

\* C8: no two 200 responses to requests for the same topic, served between
\* the same two cache clears, carry questions whose normalized question text
\* is the same.
NoQuestionDeliveredTwice ==
    \A r1, r2 \in Requests :
        (/\ r1 # r2
         /\ server.requests[r1].status = 200 /\ server.requests[r2].status = 200
         /\ ServedBetweenSameClears(r1, r2))
        => normalizeQuestionContent(server.requests[r1].questionData[1].questionText)
             # normalizeQuestionContent(server.requests[r2].questionData[1].questionText)

\* C9: among the questions generateQuestionBatch has returned for one
\* sessionId, over all calls and within each returned batch, no questionText
\* appears twice.
NoTextReturnedTwice ==
    \A c1, c2 \in Calls :
        (/\ service.calls[c1].pc = "returned" /\ service.calls[c2].pc = "returned"
         /\ service.calls[c1].sessionId = service.calls[c2].sessionId)
        => \A i \in DOMAIN service.calls[c1].questions :
             \A j \in DOMAIN service.calls[c2].questions :
                (c1 # c2 \/ i # j)
                => service.calls[c1].questions[i].questionText
                     # service.calls[c2].questions[j].questionText

\* C10: a request that is waiting for a completion has used fewer than 5
\* retries.  A duplicate candidate costs it one retry and leaves it waiting
\* while fewer than 5 are used; a valid candidate that is no duplicate ends it
\* with status 200, that candidate as the question, and exactly the
\* candidate's normalized text added to the topic's cache; a completion that
\* ends it any other way, status 500 included, leaves every cache as it was.
AcceptsFirstFreshCandidate ==
    \A r \in Requests :
        server.requests[r].pc = "calling" =>
            LET req == server.requests[r]
                cache == server.sets[req.topicCache]
            IN  /\ req.retryCount < RETRY_LIMIT
                /\ \A completion \in Completions :
                      LET after == CompletionArrives(server, r, completion)
                          res == after.requests[r]
                          key == NormalizedText[completion.data[1]]
                          question == Delivered(completion.data[1], server.uuids + 1)
                      IN  IF completion.kind = "json" /\ key \in cache
                          THEN /\ after.sets = server.sets
                               /\ IF req.retryCount + 1 < RETRY_LIMIT
                                  THEN res.pc = "calling" /\ res.retryCount = req.retryCount + 1
                                  ELSE res.status = 500
                          ELSE IF completion.kind = "json" /\ validateQuestion(question)
                          THEN /\ res.status = 200
                               /\ res.questionData = <<question>>
                               /\ after.sets =
                                     [server.sets EXCEPT ![req.topicCache] = cache \cup {key}]
                          ELSE /\ after.sets = server.sets
                               /\ res.status \in {0, 500}

\* C10 witness: a request has been answered with status 200 after duplicate
\* candidates and nothing else.
AcceptedAfterDuplicates ==
    \E r \in Requests :
        /\ server.requests[r].status = 200
        /\ server.requests[r].discarded = "duplicates"

\* C11: every POST ends after at most 5 calls of the generator, with status
\* 200 and a question that passes validateQuestion or with status 500,
\* whatever the generator returns.
PostEndsWithinFiveCalls ==
    \A r \in Requests :
        LET req == server.requests[r]
        IN  /\ req.generatorCalls <= RETRY_LIMIT
            /\ (req.pc = "responded" /\ req.topic # Null) =>
                   \/ req.status = 500
                   \/ req.status = 200 /\ validateQuestion(req.questionData[1])

\* C12: a call of generateQuestionBatch whose attempts have all failed, none
\* with a 429 error, makes its k-th generator call with retryCount k - 1, makes
\* at most MAX_RETRIES + 1 = 4 of them, and has made exactly 4 when it rejects.
FourCallsWithoutRateLimit ==
    \A c \in service.countCalls :
        LET call == service.calls[c]
        IN  ~call.rateLimited =>
              /\ call.generatorCalls <= MAX_RETRIES + 1
              /\ call.pc = "calling" => call.generatorCalls = call.retryCount + 1
              /\ call.pc = "waiting" => call.generatorCalls = call.retryCount
              /\ call.pc = "thrown" => call.generatorCalls = MAX_RETRIES + 1

\* C12 witness: a call has rejected after four failures, none a 429 error.
RejectedAfterFourCalls ==
    \E c \in service.countCalls :
        /\ service.calls[c].pc = "thrown"
        /\ ~service.calls[c].rateLimited
        /\ service.calls[c].generatorCalls = MAX_RETRIES + 1

\* C13: whatever the failures, 429 errors included, one call of
\* generateQuestionBatch makes at most MAX_RETRIES + 1 generator calls.
GeneratorCallsWithinCeiling ==
    \A c \in service.countCalls :
        service.calls[c].generatorCalls <= MAX_RETRIES + 1

\* C14: a question that validateQuestion accepted, and POST therefore returned
\* with status 200, has its required fields present and non-empty, exactly 4
\* pairwise distinct options, a correctAnswer equal to one of them and a
\* numeric grade.
AcceptedQuestionsWellFormed ==
    \A r \in Requests :
        LET req == server.requests[r]
        IN  (req.pc = "responded" /\ req.status = 200) =>
              LET q == req.questionData[1]
              IN  /\ q.id # 0 /\ q.grade # 0
                  /\ q.questionText # <<>> /\ q.correctAnswer # <<>>
                  /\ q.hint # <<>> /\ q.explanation # <<>>
                  /\ Len(q.options) = 4
                  /\ \A i, j \in DOMAIN q.options : i # j => q.options[i] # q.options[j]
                  /\ \E i \in DOMAIN q.options : q.options[i] = q.correctAnswer

\* C15: in part_001 questionsData never holds two entries with the same
\* questionId, whatever selections, submissions, continues and fetch results
\* occur.
QuestionRecordedOnce ==
    (variant = "part_001" /\ quiz.isMounted) =>
        \A i, j \in DOMAIN quiz.testReport.questionsData :
            i # j => quiz.testReport.questionsData[i].questionId
                        # quiz.testReport.questionsData[j].questionId

\* C16: in QuestionInterface one expiry of the per-question timer appends
\* exactly one attempt and schedules one move to the next question: no two
\* attempts with timeoutExpired = TRUE carry the same questionId.
OneAttemptPerExpiry ==
    variant = "QuestionInterface" =>
        \A i, j \in DOMAIN qi.sessionState.attempts :
            LET a == qi.sessionState.attempts[i]
                b == qi.sessionState.attempts[j]
            IN  (i # j /\ a.timeoutExpired /\ b.timeoutExpired)
                    => a.questionId # b.questionId

\* C17: in part_001, when the session timer reaches 0 while a question is
\* presented with its hint shown and no final submission made, the report
\* passed to onTestComplete holds an entry for that question with
\* correct = FALSE.
TimedOutQuestionReported ==
    ( /\ variant = "part_001"
      /\ quiz.testCompleted /\ parent.isTestComplete
      /\ quiz.currentQuestion # NoQuestion /\ ~quiz.isLoading
      /\ quiz.showHint /\ ~quiz.showExplanation )
    => \E i \in DOMAIN parent.testReport[1].questionsData :
          LET entry == parent.testReport[1].questionsData[i]
          IN  entry.questionId = quiz.currentQuestion.id /\ ~entry.correct

\* the report after one recorded attempt, as a function of the report before
\* and of the attempt alone
ReportAfterAttempt(prev, a) ==
    LET old == IF a.statTopic \in DOMAIN prev.topicStats
               THEN prev.topicStats[a.statTopic]
               ELSE [total |-> 0, correct |-> 0, totalAttempts |-> 0,
                     totalTime |-> 0, hintsUsed |-> 0]
        hint == IF a.hintUsed THEN 1 ELSE 0
        stat == [ total |-> old.total + 1,
                  correct |-> old.correct + (IF a.correct THEN 1 ELSE 0),
                  totalAttempts |-> old.totalAttempts + a.attempts,
                  totalTime |-> old.totalTime + a.time,
                  hintsUsed |-> old.hintsUsed + hint ]
    IN  [ totalQuestions |-> prev.totalQuestions,
          correctAnswers |-> prev.correctAnswers + (IF a.correct THEN 1 ELSE 0),
          hintsUsed |-> prev.hintsUsed + hint,
          timeTaken |-> prev.timeTaken + a.time,
          questionsData |->
              prev.questionsData \o
                  << [ questionId |-> a.questionId, topic |-> a.topic,
                       attemptsNeeded |-> a.attempts, hintUsed |-> a.hintUsed,
                       timeTaken |-> a.time, correct |-> a.correct,
                       difficulty |-> a.difficulty ] >>,
          topicsCompleted |-> prev.topicsCompleted,
          topicStats |->
              [t \in (DOMAIN prev.topicStats) \cup {a.statTopic} |->
                  IF t = a.statTopic THEN stat ELSE prev.topicStats[t]],
          totalAttempts |-> prev.totalAttempts + a.attempts,
          averageTimePerQuestion |->
              [num |-> prev.timeTaken + a.time, den |-> prev.totalQuestions + 1] ]

\* the attempt a submission in state s records
SubmittedAttempt(s) ==
    [ statTopic |-> s.currentTopic,
      questionId |-> s.currentQuestion.id,
      topic |-> s.currentQuestion.topic,
      correct |-> (s.selectedAnswer = s.currentQuestion.correctAnswer),
      attempts |-> s.currentQuestionStats.attempts + 1,
      hintUsed |-> s.currentQuestionStats.hintUsed,
      time |-> s.now - s.questionStartTime,
      difficulty |-> DIFFICULTY_LEVELS("part_001")[s.currentDifficultyIndex + 1] ]

StaleCallbacksAreNoOps ==
    [][ (variant \in QuizVariants /\ quiz.testCompleted) =>
            /\ Len(quiz'.inflight) <= Len(quiz.inflight)
            /\ quiz'.currentQuestion = quiz.currentQuestion
            /\ quiz'.testReport = quiz.testReport
            /\ parent.isTestComplete => parent'.testReport = parent.testReport ]_vars

\* C20: in QuizInterface.tsx and part_002 every request that starts carries
\* the topic and the level of the progression state held when it starts.
RequestCarriesProgression ==
    [][ (variant \in {"QuizInterface", "part_002"}
            /\ Len(quiz'.inflight) > Len(quiz.inflight)) =>
            LET r == quiz'.inflight[Len(quiz'.inflight)]
            IN  /\ r.topic = quiz'.currentTopic
                /\ r.level = RequestLevel(variant, quiz') ]_vars

\* C21: in QuestionInterface every batch load that starts is given
\* metrics.currentLevel as the state holds it after the answer that started
\* the load, and currentBatch.level is the level of the batch's questions.
BatchRequestedAtCurrentLevel ==
    /\ [][ (variant = "QuestionInterface" /\ Len(qi'.loads) > Len(qi.loads)) =>
              qi'.loads[Len(qi'.loads)].level = qi'.sessionState.metrics.currentLevel ]_vars
    /\ [](variant = "QuestionInterface" =>
              \A k \in DOMAIN qi.sessionState.currentBatch.questions :
                  qi.sessionState.currentBatch.questions[k].level
                      = qi.sessionState.currentBatch.level)

\* the requests in flight that have not been aborted
Outstanding(s) == {i \in DOMAIN s.inflight : ~s.inflight[i].aborted}

\* C22: in the QuizInterface variants at most one request that was not
\* aborted is in flight, it is the one started last, and currentQuestion and
\* totalQuestions change only when that request completes, to its response.
FetchSupersedesPrevious ==
    /\ [](variant \in QuizVariants =>
              /\ Cardinality(Outstanding(quiz)) <= 1
              /\ Outstanding(quiz) \subseteq {Len(quiz.inflight)})
    /\ [][ (/\ variant \in QuizVariants
            /\ \/ quiz'.currentQuestion # quiz.currentQuestion
               \/ quiz'.testReport.totalQuestions # quiz.testReport.totalQuestions) =>
              /\ Outstanding(quiz) = {Len(quiz.inflight)}
              /\ quiz'.inflight = SubSeq(quiz.inflight, 1, Len(quiz.inflight) - 1)
              /\ quiz'.currentQuestion.topic = quiz.inflight[Len(quiz.inflight)].topic
              /\ quiz'.currentQuestion.level = quiz.inflight[Len(quiz.inflight)].level ]_vars

\* C22 witness: a mounted QuizInterface has started a request that aborted an
\* earlier one still in flight.
RequestSuperseded ==
    /\ variant \in QuizVariants /\ quiz.isMounted
    /\ Len(quiz.inflight) >= 2
    /\ quiz.inflight[1].aborted
    /\ ~quiz.inflight[Len(quiz.inflight)].aborted

\* C23: in the QuizInterface variants isLoading is TRUE for as long as the
\* request started last has neither completed nor failed, also after the
\* handlers of a request it aborted have run.
LoadingWhileRequestInFlight ==
    (variant \in QuizVariants /\ quiz.isMounted /\ Outstanding(quiz) # {})
        => quiz.isLoading

\* C24: in QuestionInterface at most one call of generateQuestionBatch is
\* pending at any time.
OneBatchLoadInFlight ==
    variant = "QuestionInterface" => Len(qi.loads) <= 1

\* C25: in QuestionInterface a failed batch load leaves the error shown and
\* starts no generation request: after the step in which generateQuestionBatch
\* rejects, error is set and one load fewer is pending.
FailedLoadWaitsForTryAgain ==
    [][ LoadFails => /\ qi'.error # Null
                     /\ ~qi'.isLoading
                     /\ Len(qi'.loads) < Len(qi.loads) ]_vars

\* the counters and the progression state of QuizInterface
Counters(s) ==
    << s.testReport.totalQuestions, s.testReport.correctAnswers,
       s.testReport.totalAttempts, s.testReport.questionsData,
       s.testReport.topicStats, s.currentTopic, s.currentDifficultyIndex,
       s.correctStreak >>

\* C26: in part_001 a fetch that fails with an error other than an abort
\* leaves error set and isLoading FALSE, and the counters and the progression
\* state as they were when the fetch started: while the request is in flight
\* they change only by a response being applied, and the failure changes none.
FailedFetchAdvancesNothing ==
    /\ [][ (variant = "part_001" /\ quiz.isMounted /\ FetchFails) =>
            /\ quiz'.error # Null
            /\ ~quiz'.isLoading
            /\ Counters(quiz') = Counters(quiz) ]_vars
    /\ [][ (/\ variant = "part_001" /\ quiz.isMounted
            /\ Outstanding(quiz) # {}
            /\ Counters(quiz') # Counters(quiz)) => FetchSucceeds ]_vars

\* C26 witness: a fetch of part_001 has failed after a question was recorded.
FetchFailedAfterRecord ==
    /\ variant = "part_001" /\ quiz.isMounted
    /\ quiz.error # Null /\ ~quiz.isLoading
    /\ Recorded(quiz) >= 1

\* what an attempt record would change in the report
RecordedFields(s) ==
    << s.testReport.questionsData, s.testReport.topicStats,
       s.testReport.correctAnswers, s.testReport.totalAttempts,
       s.testReport.timeTaken >>

\* state t shows the hint of the question of state s and has recorded nothing
HintRevealedOnly(s, t) ==
    /\ t.showHint /\ ~t.showExplanation
    /\ t.currentQuestion = s.currentQuestion
    /\ RecordedFields(t) = RecordedFields(s)

\* C27: in part_001 (handleSubmit) and part_002 (handleAnswer) an incorrect
\* first submission for a question reveals the hint, records nothing and
\* leaves the same question presented.
FirstIncorrectRevealsHint ==
    /\ ( /\ variant = "part_001"
         /\ CardShown(quiz) /\ ~quiz.showExplanation /\ ~quiz.testCompleted
         /\ quiz.selectedAnswer # Null /\ ~quiz.isAnswerProcessing
         /\ quiz.selectedAnswer # quiz.currentQuestion.correctAnswer
         /\ quiz.currentQuestionStats.attempts = 0 )
       => HintRevealedOnly(quiz, HandleSubmit(subject, quiz))
    /\ ( /\ variant = "part_002"
         /\ CardShown(quiz) /\ ~quiz.testCompleted
         /\ quiz.selectedAnswer = Null /\ ~quiz.isAnswerProcessing
         /\ quiz.currentQuestionStats.attempts = 0 )
       => \A option \in Options \ {quiz.currentQuestion.correctAnswer} :
              HintRevealedOnly(quiz, HandleAnswerPart002(subject, quiz, option))

\* C27 witness: the hint of a question is shown after one incorrect
\* submission, an earlier question being recorded already.
HintShownAfterFirstIncorrect ==
    /\ variant \in {"part_001", "part_002"}
    /\ CardShown(quiz) /\ quiz.showHint /\ ~quiz.showExplanation
    /\ quiz.currentQuestionStats.attempts = 1
    /\ Recorded(quiz) >= 1
    /\ \A i \in DOMAIN quiz.testReport.questionsData :
           quiz.testReport.questionsData[i].questionId # quiz.currentQuestion.id

\* C28: in QuizInterface.tsx (handleAnswer) an incorrect first answer to a
\* question reveals the hint, leaves questionsData, topicStats, totalAttempts
\* and timeTaken of testReport unchanged and leaves the difficulty index
\* unchanged.
FirstIncorrectAnswerNotRecorded ==
    ( /\ variant = "QuizInterface"
      /\ CardShown(quiz) /\ ~quiz.testCompleted
      /\ quiz.selectedAnswer = Null /\ ~quiz.isAnswerProcessing
      /\ quiz.currentQuestionStats.attempts = 0 )
    => \A option \in Options \ {quiz.currentQuestion.correctAnswer} :
          LET t == HandleAnswerTsx(subject, quiz, option)
          IN  /\ t.showHint
              /\ RecordedFields(t) = RecordedFields(quiz)
              /\ t.currentDifficultyIndex = quiz.currentDifficultyIndex

\* C29: in QuizInterface.tsx every state with a displayed question,
\* testCompleted FALSE and no load in progress has a way forward other than
\* the session timer: an answer button is enabled, Continue or Retry is
\* available, or the 1500 ms timeout of a correct answer is pending.
QuestionCanBeResolved ==
    ( /\ variant = "QuizInterface"
      /\ CardShown(quiz) /\ ~quiz.testCompleted )
    => \/ quiz.selectedAnswer = Null /\ ~quiz.isAnswerProcessing
       \/ quiz.showExplanation
       \/ quiz.error # Null
       \/ quiz.timeouts # <<>>

\* C30: in part_001 an incorrect submission made after a first incorrect
\* submission revealed the hint appends exactly one entry, with
\* correct = FALSE and attemptsNeeded = 2, shows the explanation (which removes
\* the Submit button) and starts no fetch; while the explanation is shown a
\* fetch starts only by Continue.
SecondIncorrectRecordedOnce ==
    /\ [](( /\ variant = "part_001"
            /\ CardShown(quiz) /\ ~quiz.showExplanation /\ ~quiz.testCompleted
            /\ quiz.selectedAnswer # Null /\ ~quiz.isAnswerProcessing
            /\ quiz.selectedAnswer # quiz.currentQuestion.correctAnswer
            /\ quiz.showHint /\ quiz.currentQuestionStats.attempts = 1 )
          => LET t == HandleSubmit(subject, quiz)
                 old == quiz.testReport.questionsData
                 new == t.testReport.questionsData
             IN  /\ Len(new) = Len(old) + 1
                 /\ SubSeq(new, 1, Len(old)) = old
                 /\ new[Len(new)].questionId = quiz.currentQuestion.id
                 /\ ~new[Len(new)].correct
                 /\ new[Len(new)].attemptsNeeded = 2
                 /\ t.showExplanation
                 /\ t.currentQuestion = quiz.currentQuestion
                 /\ t.inflight = quiz.inflight /\ ~t.isLoading)
    /\ [][ (/\ variant = "part_001" /\ quiz.isMounted /\ quiz.showExplanation
            /\ Len(quiz'.inflight) > Len(quiz.inflight)) => Continue ]_vars

\* C30 witness: part_001 shows the explanation of a question whose second
\* incorrect submission has just been recorded.
SecondIncorrectSubmitted ==
    /\ variant = "part_001"
    /\ CardShown(quiz) /\ quiz.showExplanation /\ quiz.showHint
    /\ quiz.currentQuestionStats.attempts = 2
    /\ Recorded(quiz) >= 1
    /\ LET last == quiz.testReport.questionsData[Recorded(quiz)]
       IN  /\ last.questionId = quiz.currentQuestion.id
           /\ ~last.correct /\ last.attemptsNeeded = 2

\* C31: in part_001 (handleSubmit) an incorrect final submission sets the
\* streak to 0 and an incorrect first submission leaves it unchanged.
IncorrectFinalResetsStreak ==
    ( /\ variant = "part_001"
      /\ CardShown(quiz) /\ ~quiz.showExplanation /\ ~quiz.testCompleted
      /\ quiz.selectedAnswer # Null /\ ~quiz.isAnswerProcessing
      /\ quiz.selectedAnswer # quiz.currentQuestion.correctAnswer )
    => LET t == HandleSubmit(subject, quiz)
       IN  IF quiz.currentQuestionStats.attempts = 0
           THEN t.correctStreak = quiz.correctStreak /\ ~t.showExplanation
           ELSE t.correctStreak = 0 /\ t.showExplanation

\* C31 witness: part_001 has recorded an incorrect final submission after a
\* correct one, and the streak is 0.
StreakResetByIncorrectFinal ==
    /\ variant = "part_001"
    /\ CardShown(quiz) /\ quiz.showExplanation
    /\ quiz.correctStreak = 0
    /\ Recorded(quiz) >= 2
    /\ quiz.testReport.questionsData[Recorded(quiz) - 1].correct
    /\ ~quiz.testReport.questionsData[Recorded(quiz)].correct

\* C32: in part_002 (handleAnswer) a second incorrect answer to a question
\* sets consecutiveCorrect to 0.
IncorrectFinalResetsConsecutive ==
    ( /\ variant = "part_002"
      /\ CardShown(quiz) /\ ~quiz.testCompleted
      /\ quiz.selectedAnswer = Null /\ ~quiz.isAnswerProcessing
      /\ quiz.currentQuestionStats.attempts = 1 )
    => \A option \in Options \ {quiz.currentQuestion.correctAnswer} :
           HandleAnswerPart002(subject, quiz, option).correctStreak = 0

\* C33: in QuizInterface.tsx and part_002 (handleAnswer) the difficulty index
\* rises only when the streak reaches its threshold, and then by one step: a
\* correct answer that leaves the streak below the threshold leaves the
\* difficulty index unchanged.
DifficultyRisesOnlyAtThreshold ==
    ( /\ variant \in {"QuizInterface", "part_002"}
      /\ CardShown(quiz) /\ ~quiz.testCompleted
      /\ quiz.selectedAnswer = Null /\ ~quiz.isAnswerProcessing )
    => LET answer == quiz.currentQuestion.correctAnswer
           t == IF variant = "QuizInterface"
                THEN HandleAnswerTsx(subject, quiz, answer)
                ELSE HandleAnswerPart002(subject, quiz, answer)
       IN  /\ t.currentDifficultyIndex > quiz.currentDifficultyIndex
              => /\ quiz.correctStreak + 1 >= CONSECUTIVE_TOPIC_CHANGE
                 /\ t.currentDifficultyIndex = quiz.currentDifficultyIndex + 1
           /\ quiz.correctStreak + 1 < CONSECUTIVE_TOPIC_CHANGE
              => t.currentDifficultyIndex = quiz.currentDifficultyIndex

\* C34: in part_001 timeRemaining never increases and never goes below 0;
\* testCompleted becomes true once timeRemaining is 0 and is never set back
\* to false; under fair timer ticks every session reaches testCompleted and
\* onTestComplete is called.
TimerRunsToCompletion ==
    /\ [](quiz.timeRemaining >= 0)
    /\ [][ /\ quiz'.timeRemaining <= quiz.timeRemaining
           /\ quiz.testCompleted => quiz'.testCompleted ]_vars
    /\ (quiz.timeRemaining = 0) ~> quiz.testCompleted
    /\ <>(quiz.testCompleted /\ parent.isTestComplete)

\* C34 witness: the test completed and the parent was notified while a
\* question was loading and an attempt had been recorded.
CompletedWhileLoading ==
    /\ variant = "part_001"
    /\ quiz.testCompleted /\ parent.isTestComplete
    /\ quiz.isMounted /\ quiz.isLoading
    /\ Recorded(quiz) >= 1

\* C35: an attempt of generateWithRetry that fails leaves the session's
\* usedQuestionTexts and cached questions as they were before the attempt.
FailedAttemptLeavesCache ==
    [][ \A c \in Calls :
          ( /\ service.calls[c].pc = "calling"
            /\ service'.calls[c].pc \in {"waiting", "thrown"} )
          => service'.sessionQuestionCache = service.sessionQuestionCache ]_vars

\* C36: in part_001, after each recorded attempt averageTimePerQuestion is
\* timeTaken divided by the number of attempts recorded so far: the divisor of
\* the update equals the length of questionsData after the update.
AverageDividesByRecorded ==
    (variant = "part_001" /\ Recorded(quiz) >= 1)
    => /\ quiz.testReport.averageTimePerQuestion.num = quiz.testReport.timeTaken
       /\ quiz.testReport.averageTimePerQuestion.den = Len(quiz.testReport.questionsData)

RECURSIVE SumOfAttempts(_)
\* the attempts needed by all entries of an attempt log
SumOfAttempts(data) ==
    IF data = <<>> THEN 0
    ELSE data[Len(data)].attemptsNeeded + SumOfAttempts(SubSeq(data, 1, Len(data) - 1))

\* topicStats counts a topic's entries and its correct entries
TopicStatsDerivable(report) ==
    LET data == report.questionsData
        OfTopic(t) == {i \in DOMAIN data : data[i].topic = t}
        topics == (DOMAIN report.topicStats) \cup {data[i].topic : i \in DOMAIN data}
    IN  \A t \in topics :
            /\ TopicStatOf(report.topicStats, t).total = Cardinality(OfTopic(t))
            /\ TopicStatOf(report.topicStats, t).correct
                   = Cardinality({i \in OfTopic(t) : data[i].correct})

\* C37: in part_001 the report is derivable from its attempt log in every
\* reachable state: topicStats[t].total and .correct count the entries of
\* topic t and the correct ones among them, correctAnswers counts the correct
\* entries and totalAttempts is the sum of attemptsNeeded.
ReportDerivableFromLog ==
    variant = "part_001"
    => LET report == quiz.testReport
           data == report.questionsData
       IN  /\ TopicStatsDerivable(report)
           /\ report.correctAnswers = Cardinality({i \in DOMAIN data : data[i].correct})
           /\ report.totalAttempts = SumOfAttempts(data)

RECURSIVE SumOfTopicHints(_, _)
\* the hints counted by the statistics of the given topics
SumOfTopicHints(stats, topics) ==
    IF topics = {} THEN 0
    ELSE LET t == CHOOSE x \in topics : TRUE
         IN  stats[t].hintsUsed + SumOfTopicHints(stats, topics \ {t})

\* C38: in part_001 each hint is counted once: when the attempt at the
\* question on screen has just been recorded, testReport.hintsUsed equals the
\* number of questionsData entries with hintUsed and the sum of
\* topicStats[t].hintsUsed over all topics.
HintsCountedOnce ==
    ( /\ variant = "part_001"
      /\ Recorded(quiz) >= 1
      /\ quiz.currentQuestion # NoQuestion
      /\ quiz.testReport.questionsData[Recorded(quiz)].questionId = quiz.currentQuestion.id )
    => LET report == quiz.testReport
           data == report.questionsData
       IN  /\ report.hintsUsed = Cardinality({i \in DOMAIN data : data[i].hintUsed})
           /\ report.hintsUsed = SumOfTopicHints(report.topicStats, DOMAIN report.topicStats)

(***************************************************************************)
(* AnalyticsPanel: revisionNeeded.                                         *)
(***************************************************************************)
\* entries of questionsData the panel may be given
MaxEntries == 3

\* the fields of a questionsData entry that the panel's revision list reads,
\* with topics of SUBJECT_CONFIG and levels of DIFFICULTY_LEVELS
PanelEntries ==
    [ topic : {"numbers", "algebra"},
      difficulty : {"very_easy", "hard"},
      correct : BOOLEAN ]

\* a key that leaves the difficulty out
RevisionKeyByTopic(q) == q.topic

\* const key = `${q.topic}_${q.difficulty}`
RevisionKey(q) == q.topic \o "_" \o q.difficulty

\* the callback of reduce; acc keeps its keys in insertion order
ReduceRevision(acc, q) ==
    LET key == RevisionKey(q)
        created ==
            IF \E i \in DOMAIN acc : acc[i].key = key THEN acc
            ELSE Append(acc, [key |-> key, topic |-> q.topic,
                              difficulty |-> q.difficulty, count |-> 0])
    IN  [i \in DOMAIN created |->
            IF created[i].key = key
            THEN [created[i] EXCEPT !.count = @ + 1]
            ELSE created[i]]

\* entry.difficulty.replace("_", " ") on the levels of DIFFICULTY_LEVELS
ReplaceUnderscore(difficulty) ==
    IF difficulty = "very_easy" THEN "very easy" ELSE difficulty

\* Object.values(revisionMap).filter(count > 0).map(label, count)
RevisionNeeded(revisionMap) ==
    LET kept == SelectSeq(revisionMap, LAMBDA entry : entry.count > 0)
    IN  [i \in DOMAIN kept |->
            [ label |-> kept[i].topic \o ": " \o ReplaceUnderscore(kept[i].difficulty),
              count |-> kept[i].count ]]

\* the panel moves to p2
PanelStep(p2) ==
    /\ quiz' = p2
    /\ UNCHANGED <<variant, subject, qi, server, service, parent, nextId, budget>>

\* filter and reduce take the next entry of questionsData
RevisionMapStep ==
    /\ variant = "AnalyticsPanel"
    /\ quiz.reduced < Len(quiz.testReport.questionsData)
    /\ LET q == quiz.testReport.questionsData[quiz.reduced + 1]
       IN  PanelStep([quiz EXCEPT
                        !.reduced = @ + 1,
                        !.revisionMap = IF q.correct THEN @ ELSE ReduceRevision(@, q)])

\* revisionNeeded is computed from the finished revisionMap
RevisionNeededComputed ==
    /\ variant = "AnalyticsPanel"
    /\ quiz.reduced = Len(quiz.testReport.questionsData)
    /\ ~quiz.computed
    /\ PanelStep([quiz EXCEPT !.computed = TRUE,
                              !.revisionNeeded = RevisionNeeded(quiz.revisionMap)])

AnalyticsNext == RevisionMapStep \/ RevisionNeededComputed

\* the panel is rendered with a report
InitAnalytics ==
    /\ variant = "AnalyticsPanel"
    /\ subject = "mathematics"
    /\ \E data \in UNION {[1..n -> PanelEntries] : n \in 0..MaxEntries} :
          quiz = [ testReport |-> [questionsData |-> data],
                   reduced |-> 0,
                   revisionMap |-> <<>>,
                   computed |-> FALSE,
                   revisionNeeded |-> <<>> ]
    /\ qi = Unmounted
    /\ server = RouteLoaded
    /\ service = ServiceLoaded
    /\ parent = [isTestComplete |-> FALSE, testReport |-> <<>>]
    /\ nextId = 0
    /\ budget = Envelope(0, 0)

SpecAnalytics == InitAnalytics /\ [][AnalyticsNext]_vars

\* the incorrect entries of a (topic, difficulty) pair
IncorrectOf(data, topic, difficulty) ==
    {i \in DOMAIN data :
        /\ ~data[i].correct
        /\ data[i].topic = topic /\ data[i].difficulty = difficulty}

\* the label shown for a (topic, difficulty) pair
PairLabel(topic, difficulty) ==
    topic \o ": " \o (IF difficulty = "very_easy" THEN "very easy" ELSE difficulty)

\* C39: revisionNeeded lists exactly the (topic, difficulty) pairs that have an
\* incorrect entry in questionsData: each such pair once, no other pair, and
\* each with the number of its incorrect entries as its count.
RevisionNeededIsIncorrectPairs ==
    (variant = "AnalyticsPanel" /\ quiz.computed)
    => LET data == quiz.testReport.questionsData
           shown == quiz.revisionNeeded
       IN  /\ \A e \in PanelEntries :
                 LET rows == {i \in DOMAIN shown : shown[i].label = PairLabel(e.topic, e.difficulty)}
                     incorrect == IncorrectOf(data, e.topic, e.difficulty)
                 IN  IF incorrect = {}
                     THEN rows = {}
                     ELSE /\ Cardinality(rows) = 1
                          /\ \A i \in rows : shown[i].count = Cardinality(incorrect)
           /\ \A i \in DOMAIN shown :
                 \E e \in PanelEntries : shown[i].label = PairLabel(e.topic, e.difficulty)

\* C39 witness: the panel lists two pairs, one of them with two incorrect
\* entries.
TwoPairsListed ==
    /\ variant = "AnalyticsPanel" /\ quiz.computed
    /\ Len(quiz.revisionNeeded) = 2
    /\ \E i \in DOMAIN quiz.revisionNeeded : quiz.revisionNeeded[i].count = 2

====
